---- MODULE Spec2Model ----
(***************************************************************************)
(* A model of jiractl, a command-line client for the Jira REST API.        *)
(*                                                                         *)
(* Go strings are modelled as sequences of byte values (32 is the space,   *)
(* 34 the double quote, 65..90 the upper-case and 97..122 the lower-case   *)
(* ASCII letters), so that trimming, case folding, searching, quoting and  *)
(* comparing are computed, not assumed.  A Go error is a record            *)
(* [failed, msg]; a pointer is a sequence of length 0 (nil) or 1.          *)
(***************************************************************************)
EXTENDS Integers, Sequences, FiniteSets, TLC

(***************************************************************************)
(* Bounds of the model.                                                    *)
(***************************************************************************)

\* Size of a transitions response: every transition counts 1 plus the
\* length of its name.
MaxResponseSize == 7

\* Length of the --status argument.
MaxStatusLen == 2

\* The limit given to searchIssues.
MaxLimit == 3

\* Issues in one page of search results.
MaxPageItems == 2

\* The total a page of search results reports.
MaxTotal == 3

(***************************************************************************)
(* package strings / strconv / fmt, as far as the program uses them        *)
(***************************************************************************)

\* unicode.IsSpace on the ASCII range: \t \n \v \f \r and the space.
IsSpace(c) == c \in {9, 10, 11, 12, 13, 32}

RECURSIVE TrimLeft(_)
TrimLeft(s) ==
    IF s # <<>> /\ IsSpace(Head(s)) THEN TrimLeft(Tail(s)) ELSE s

RECURSIVE TrimRight(_)
TrimRight(s) ==
    IF s # <<>> /\ IsSpace(s[Len(s)]) THEN TrimRight(SubSeq(s, 1, Len(s) - 1)) ELSE s

\* strings.TrimSpace
TrimSpace(s) == TrimRight(TrimLeft(s))

\* unicode.ToLower on the ASCII range.
ToLowerChar(c) == IF c \in 65..90 THEN c + 32 ELSE c

\* strings.ToLower
ToLower(s) == [i \in 1..Len(s) |-> ToLowerChar(s[i])]

\* strings.EqualFold on ASCII strings: equal lengths, and position by
\* position the same byte or the two cases of one letter.
EqualFold(s, t) ==
    /\ Len(s) = Len(t)
    /\ \A i \in 1..Len(s) :
          \/ s[i] = t[i]
          \/ /\ s[i] \in (65..90) \cup (97..122)
             /\ t[i] \in (65..90) \cup (97..122)
             /\ ToLowerChar(s[i]) = ToLowerChar(t[i])

\* strings.HasPrefix
HasPrefix(s, p) == Len(s) >= Len(p) /\ SubSeq(s, 1, Len(p)) = p

\* The 0-based offsets at which sub occurs in s.
Occurrences(s, sub) ==
    {i \in 0..(Len(s) - Len(sub)) : SubSeq(s, i + 1, i + Len(sub)) = sub}

\* strings.Index: the 0-based offset of the first occurrence, or -1.
Index(s, sub) ==
    LET found == Occurrences(s, sub)
    IN  IF found = {} THEN -1
        ELSE CHOOSE i \in found : \A j \in found : i <= j

\* strings.Contains
Contains(s, sub) ==
    \E i \in 0..(Len(s) - Len(sub)) : SubSeq(s, i + 1, i + Len(sub)) = sub

\* The Go operator < on strings: bytewise lexicographic order.
RECURSIVE StringLess(_, _)
StringLess(s, t) ==
    IF t = <<>> THEN FALSE
    ELSE IF s = <<>> THEN TRUE
    ELSE IF Head(s) # Head(t) THEN Head(s) < Head(t)
    ELSE StringLess(Tail(s), Tail(t))

\* strings.Join
RECURSIVE Join(_, _)
Join(elems, sep) ==
    IF elems = <<>> THEN <<>>
    ELSE IF Len(elems) = 1 THEN elems[1]
    ELSE elems[1] \o sep \o Join(Tail(elems), sep)

\* What strconv.Quote writes for one byte of an ASCII string: a backslash
\* before the double quote and the backslash, the short escapes for the
\* control characters that have one, the byte itself when it is printable.
\* (Other control bytes become \x.. and are outside the model's alphabet.)
QuoteChar(c) ==
    CASE c = 34 -> <<92, 34>>
      [] c = 92 -> <<92, 92>>
      [] c = 7  -> <<92, 97>>
      [] c = 8  -> <<92, 98>>
      [] c = 9  -> <<92, 116>>
      [] c = 10 -> <<92, 110>>
      [] c = 11 -> <<92, 118>>
      [] c = 12 -> <<92, 102>>
      [] c = 13 -> <<92, 114>>
      [] OTHER  -> <<c>>

RECURSIVE QuoteBody(_)
QuoteBody(s) == IF s = <<>> THEN <<>> ELSE QuoteChar(Head(s)) \o QuoteBody(Tail(s))

\* fmt's %q verb on a string: strconv.Quote.
Quote(s) == <<34>> \o QuoteBody(s) \o <<34>>

(***************************************************************************)
(* Values                                                                  *)
(***************************************************************************)

\* The nil error and an error made by errors.New / fmt.Errorf.
NilError == [failed |-> FALSE, msg |-> <<>>]
NewError(m) == [failed |-> TRUE, msg |-> m]

\* JiraTransition{}: the zero value.
ZeroTransition == [ID |-> <<>>, Name |-> <<>>, To |-> <<>>]

\* "--status is required"
ErrStatusRequired ==
    NewError(<<45, 45, 115, 116, 97, 116, 117, 115, 32, 105, 115, 32,
               114, 101, 113, 117, 105, 114, 101, 100>>)

\* "no transition matching "
TxtNoTransition ==
    <<110, 111, 32, 116, 114, 97, 110, 115, 105, 116, 105, 111, 110, 32,
      109, 97, 116, 99, 104, 105, 110, 103, 32>>

\* "; available transitions: "
TxtAvailable ==
    <<59, 32, 97, 118, 97, 105, 108, 97, 98, 108, 101, 32, 116, 114, 97,
      110, 115, 105, 116, 105, 111, 110, 115, 58, 32>>

\* ", "
TxtComma == <<44, 32>>

\* "status "
TxtStatus == <<115, 116, 97, 116, 117, 115, 32>>

\* " matched multiple transitions ("
TxtMatchedMultiple ==
    <<32, 109, 97, 116, 99, 104, 101, 100, 32, 109, 117, 108, 116, 105,
      112, 108, 101, 32, 116, 114, 97, 110, 115, 105, 116, 105, 111, 110,
      115, 32, 40>>

\* "); using "
TxtUsing == <<41, 59, 32, 117, 115, 105, 110, 103, 32>>

(***************************************************************************)
(* sort.Slice                                                              *)
(***************************************************************************)

\* The order sort.Slice gives a slice of n elements, as the sequence of the
\* positions the elements had before: less[i][j] tells whether the less
\* function holds of the elements first at positions i and j.
\*
\* One pass of the inner loop of insertion sort: the element at position j
\* moves left while it is less than its predecessor.
RECURSIVE SinkLeft(_, _, _)
SinkLeft(less, order, j) ==
    IF j > 1 /\ less[order[j]][order[j - 1]]
    THEN SinkLeft(less,
                  [order EXCEPT ![j] = order[j - 1], ![j - 1] = order[j]],
                  j - 1)
    ELSE order

RECURSIVE InsertionSortFrom(_, _, _)
InsertionSortFrom(less, order, i) ==
    IF i > Len(order) THEN order
    ELSE InsertionSortFrom(less, SinkLeft(less, order, i), i + 1)

\* sort.Slice on a slice of at most 12 elements, which the Go runtime sorts
\* by insertion sort.
SortSlice(less, n) == InsertionSortFrom(less, [k \in 1..n |-> k], 2)

(***************************************************************************)
(* matchTransition and its helpers                                         *)
(***************************************************************************)

\* Variant: the lower-case names are compared before the lengths.
pickBestLess_nameFirst(x, y) ==
    IF ToLower(x.Name) # ToLower(y.Name)
    THEN StringLess(ToLower(x.Name), ToLower(y.Name))
    ELSE IF Len(x.Name) # Len(y.Name) THEN Len(x.Name) < Len(y.Name)
    ELSE StringLess(x.ID, y.ID)

\* Variant: candidates of one length and one lower-case name are left in
\* the order they came in.
pickBestLess_noID(x, y) ==
    IF Len(x.Name) # Len(y.Name) THEN Len(x.Name) < Len(y.Name)
    ELSE StringLess(ToLower(x.Name), ToLower(y.Name))

\* The less function of pickBestTransition.
pickBestLess(x, y) ==
    IF Len(x.Name) # Len(y.Name) THEN Len(x.Name) < Len(y.Name)
    ELSE IF ToLower(x.Name) # ToLower(y.Name)
         THEN StringLess(ToLower(x.Name), ToLower(y.Name))
    ELSE StringLess(x.ID, y.ID)

\* Variant: the result is built from the id and the name of the best
\* candidate, and its target status is lost.
pickBestTransition_rebuilt(candidates) ==
    LET n == Len(candidates)
        less == [i \in 1..n |-> [j \in 1..n |->
                    pickBestLess(candidates[i], candidates[j])]]
        best == candidates[SortSlice(less, n)[1]]
    IN  [ID |-> best.ID, Name |-> best.Name, To |-> <<>>]

pickBestTransition(candidates) ==
    LET n == Len(candidates)
        less == [i \in 1..n |-> [j \in 1..n |->
                    pickBestLess(candidates[i], candidates[j])]]
    IN  IF n = 1 THEN candidates[1]
        ELSE candidates[SortSlice(less, n)[1]]

\* Variant: the names are listed in the order of the final tie-break.
ambiguityWarning_tieBreakOrder(query, candidates, selected) ==
    LET n == Len(candidates)
        less == [i \in 1..n |-> [j \in 1..n |->
                    pickBestLess(candidates[i], candidates[j])]]
        order == SortSlice(less, n)
    IN  IF n <= 1 THEN <<>>
        ELSE TxtStatus \o Quote(query) \o TxtMatchedMultiple
             \o Join([i \in 1..n |-> candidates[order[i]].Name], TxtComma)
             \o TxtUsing \o Quote(selected.Name)

\* Variant: two candidates are not yet reported.
ambiguityWarning_overTwo(query, candidates, selected) ==
    IF Len(candidates) <= 2 THEN <<>>
    ELSE TxtStatus \o Quote(query) \o TxtMatchedMultiple
         \o Join([i \in 1..Len(candidates) |-> candidates[i].Name], TxtComma)
         \o TxtUsing \o Quote(selected.Name)

ambiguityWarning(query, candidates, selected) ==
    IF Len(candidates) <= 1 THEN <<>>
    ELSE TxtStatus \o Quote(query) \o TxtMatchedMultiple
         \o Join([i \in 1..Len(candidates) |-> candidates[i].Name], TxtComma)
         \o TxtUsing \o Quote(selected.Name)

\* Variant: the names are compared byte by byte.
IsExact_caseSensitive(t, query) == t.Name = query

\* The three cases of the switch in the loop over the transitions; a case
\* is reached only when the cases before it do not apply.
IsExact(t, query) == EqualFold(t.Name, query)

\* Variant: any occurrence of the query counts as a prefix.
IsPrefix_anywhere(t, query) ==
    /\ ~IsExact(t, query)
    /\ Contains(ToLower(t.Name), ToLower(query))

\* Variant: the name is not put in lower case.
IsPrefix_rawName(t, query) ==
    /\ ~IsExact(t, query)
    /\ HasPrefix(t.Name, ToLower(query))

IsPrefix(t, query) ==
    /\ ~IsExact(t, query)
    /\ HasPrefix(ToLower(t.Name), ToLower(query))

IsContains(t, query) ==
    /\ ~IsExact(t, query)
    /\ ~IsPrefix(t, query)
    /\ Contains(ToLower(t.Name), ToLower(query))

exactOf(transitions, query) ==
    SelectSeq(transitions, LAMBDA t : IsExact(t, query))

prefixOf(transitions, query) ==
    SelectSeq(transitions, LAMBDA t : IsPrefix(t, query))

\* The scoredMatch values, in input order.
containsOf(transitions, query) ==
    LET hits == SelectSeq(transitions, LAMBDA t : IsContains(t, query))
    IN  [i \in 1..Len(hits) |->
            [transition |-> hits[i],
             score |-> Index(ToLower(hits[i].Name), ToLower(query))]]

\* The less function of the sort of the contains tier.
containsLess(x, y) ==
    IF x.score # y.score THEN x.score < y.score
    ELSE IF ToLower(x.transition.Name) # ToLower(y.transition.Name)
         THEN StringLess(ToLower(x.transition.Name), ToLower(y.transition.Name))
    ELSE Len(x.transition.Name) < Len(y.transition.Name)

\* The candidates of the contains tier after the sort.
containsCandidates(transitions, query) ==
    LET contains == containsOf(transitions, query)
        n == Len(contains)
        less == [i \in 1..n |-> [j \in 1..n |->
                    containsLess(contains[i], contains[j])]]
        order == SortSlice(less, n)
    IN  [i \in 1..n |-> contains[order[i]].transition]

\* Variant: the query is written with %s, not %q.
noMatchError_unquoted(transitions, query) ==
    NewError(TxtNoTransition \o query \o TxtAvailable
             \o Join([i \in 1..Len(transitions) |-> transitions[i].Name], TxtComma))

\* The error of the last return statement.
noMatchError(transitions, query) ==
    NewError(TxtNoTransition \o Quote(query) \o TxtAvailable
             \o Join([i \in 1..Len(transitions) |-> transitions[i].Name], TxtComma))

MatchResult(t, by, w, e) ==
    [transition |-> t, matchedBy |-> by, warning |-> w, err |-> e]

\* matchTransition once the query is known not to be blank: the loop over
\* the transitions and the returns that follow it.
matchQuery(transitions, query) ==
    LET exact  == exactOf(transitions, query)
        prefix == prefixOf(transitions, query)
    IN  IF Len(exact) > 0
        THEN MatchResult(pickBestTransition(exact), "exact", <<>>, NilError)
        ELSE IF Len(prefix) > 0
        THEN LET picked == pickBestTransition(prefix)
             IN  MatchResult(picked, "prefix",
                             ambiguityWarning(query, prefix, picked), NilError)
        ELSE LET candidates == containsCandidates(transitions, query)
             IN  IF Len(candidates) > 0
                 THEN LET picked == pickBestTransition(candidates)
                      IN  MatchResult(picked, "contains",
                                      ambiguityWarning(query, candidates, picked),
                                      NilError)
                 ELSE MatchResult(ZeroTransition, "", <<>>,
                                  noMatchError(transitions, query))

\* Variant: the check of the blank query is missing.
matchTransition_noBlankCheck(transitions, targetStatus) ==
    matchQuery(transitions, TrimSpace(targetStatus))

matchTransition(transitions, targetStatus) ==
    IF TrimSpace(targetStatus) = <<>>
    THEN MatchResult(ZeroTransition, "", <<>>, ErrStatusRequired)
    ELSE matchQuery(transitions, TrimSpace(targetStatus))

(***************************************************************************)
(* Inputs                                                                  *)
(***************************************************************************)

\* Bytes of transition names: a lower-case and an upper-case letter.
NameAlphabet == {97, 66}

\* Bytes of the --status argument: an upper-case and a lower-case letter,
\* the space and the double quote.
StatusAlphabet == {65, 98, 32, 34}

\* All strings over an alphabet of length n, and of length at most n.
RECURSIVE StringsOfLen(_, _)
StringsOfLen(alphabet, n) ==
    IF n = 0 THEN {<<>>}
    ELSE {<<c>> \o s : c \in alphabet, s \in StringsOfLen(alphabet, n - 1)}

StringsUpTo(alphabet, n) == UNION {StringsOfLen(alphabet, k) : k \in 0..n}

\* The lists of names a transitions response of at most the given size holds.
RECURSIVE NameLists(_)
NameLists(size) ==
    {<<>>} \cup
    UNION {{<<n>> \o rest : rest \in NameLists(size - 1 - Len(n))} :
              n \in StringsUpTo(NameAlphabet, size - 1)}

\* strconv.Itoa on a natural number.
RECURSIVE Itoa(_)
Itoa(n) == IF n < 10 THEN <<48 + n>> ELSE Itoa(n \div 10) \o <<48 + (n % 10)>>

\* The ids of the transitions of one issue are pairwise distinct decimal
\* numbers: the k-th transition of a response has id 2, 10, 4, 12, 6, ...
\* so that the order of the ids as strings is neither the order of the
\* list nor the order of the numbers.
TransitionIDAt(k) == Itoa(IF k % 2 = 1 THEN k + 1 ELSE k + 8)

\* The target status of the k-th transition: absent for the first, a
\* status named after the position for the others.
TransitionToAt(k) == IF k = 1 THEN <<>> ELSE <<[Name |-> <<83>> \o Itoa(k)]>>

\* The transitions responses: JiraTransitionsResponse.Transitions.
TransitionsOf(names) ==
    [k \in 1..Len(names) |->
        [ID |-> TransitionIDAt(k), Name |-> names[k], To |-> TransitionToAt(k)]]

TransitionLists == {TransitionsOf(names) : names \in NameLists(MaxResponseSize)}

StatusArgs == StringsUpTo(StatusAlphabet, MaxStatusLen)

(***************************************************************************)
(* State                                                                   *)
(***************************************************************************)

VARIABLES
    pc,           \* position of the program
    status,       \* the value of --status / the targetStatus argument
    transitions,  \* the transitions handed to matchTransition
    matched,      \* what matchTransition returned
    posts,        \* the transition ids POSTed so far
    cmdErr        \* the error the command returned

\* searchIssues
VARIABLES
    limit,          \* the limit argument
    all,            \* the issues accumulated
    nextPageToken,  \* the token of the last page decoded
    result,         \* the SearchIssuesResult
    searchErr,      \* the error returned
    request,        \* the last page request sent: <<>> or <<the request>>
    numRequests,    \* how many page requests were sent
    response,       \* the last page decoded: <<>> or <<the page>>
    received        \* the issues of all pages decoded, in the order received

\* auth login, auth status and the call of loadAuthConfig by an issues command
VARIABLES
    command,       \* "login", "status" or "issues"
    flags,         \* --server, --email and --token of auth login
    env,           \* JIRACTL_SERVER, JIRACTL_EMAIL and JIRACTL_API_TOKEN
    interactive,   \* isInteractive()
    typed,         \* the line typed at the prompt "API token: "
    configFile,    \* config.json: absent, unreadable or a Config
    configBefore,  \* config.json when the command started
    authCfg,       \* the Config resolved
    authErr,       \* the error the command returned
    authRequests,  \* the requests sent, in order
    verification   \* how the verification request of auth login ended

\* adfToText and formatDate
VARIABLES
    adfDoc,   \* the argument of adfToText
    adfText,  \* <<>> or <<what adfToText returned>>
    dateIn,   \* the argument of formatDate
    dateOut   \* <<>> or <<what formatDate returned>>

\* issues view
VARIABLES
    commentLimit,  \* --comment-limit
    viewRequests,  \* the requests sent, in order
    commentsResp,  \* <<>> or <<the comments of the response decoded>>
    comments,      \* what getComments returned
    viewErr        \* the error the command returned

\* jiractl issues assign
VARIABLES
    assignEmail,     \* the value of --email
    assignGets,      \* the GET requests sent so far
    assignReporter,  \* issue.Fields.Reporter of the issue fetched
    assignUsers,     \* the users searchUser returned
    assignPuts,      \* the account ids sent in assignee updates so far
    assignErr        \* the error the command returned

transitionVars == <<status, transitions, matched, posts, cmdErr>>

searchVars ==
    <<limit, all, nextPageToken, result, searchErr, request, numRequests,
      response, received>>

authVars ==
    <<command, flags, env, interactive, typed, configFile, configBefore,
      authCfg, authErr, authRequests, verification>>

textVars == <<adfDoc, adfText, dateIn, dateOut>>

viewVars == <<commentLimit, viewRequests, commentsResp, comments, viewErr>>

assignVars ==
    <<assignEmail, assignGets, assignReporter, assignUsers, assignPuts,
      assignErr>>

vars ==
    <<pc, transitionVars, searchVars, authVars, textVars, viewVars,
      assignVars>>

\* The variables a part of the program leaves alone.
notTransitionVars == <<searchVars, authVars, textVars, viewVars, assignVars>>
notSearchVars == <<transitionVars, authVars, textVars, viewVars, assignVars>>
notAuthVars == <<transitionVars, searchVars, textVars, viewVars, assignVars>>
notTextVars == <<transitionVars, searchVars, authVars, viewVars, assignVars>>
notViewVars == <<transitionVars, searchVars, authVars, textVars, assignVars>>
notAssignVars == <<transitionVars, searchVars, authVars, textVars, viewVars>>

\* Config{}
ZeroConfig == [Server |-> <<>>, Email |-> <<>>, APIToken |-> <<>>]

\* No --server, --email and --token.
NoFlags == [server |-> <<>>, email |-> <<>>, token |-> <<>>]

\* config.json does not exist.
AbsentFile == [state |-> "absent", cfg |-> ZeroConfig]

\* A nil value of type any.
AdfNil ==
    [kind |-> "nil", type |-> "", hasText |-> FALSE, text |-> <<>>,
     hasContent |-> FALSE, content |-> <<>>]

\* SearchIssuesResult{}
ZeroSearchResult == [Issues |-> <<>>, Total |-> 0, HasMore |-> FALSE]

\* The state of the part of the program that does not run.
TransitionIdle ==
    /\ status = <<>>
    /\ transitions = <<>>
    /\ matched = MatchResult(ZeroTransition, "", <<>>, NilError)
    /\ posts = <<>>
    /\ cmdErr = NilError

SearchIdle ==
    /\ limit = 0
    /\ all = <<>>
    /\ nextPageToken = ""
    /\ result = ZeroSearchResult
    /\ searchErr = NilError
    /\ request = <<>>
    /\ numRequests = 0
    /\ response = <<>>
    /\ received = <<>>

AuthIdle ==
    /\ command = ""
    /\ flags = NoFlags
    /\ env = ZeroConfig
    /\ interactive = FALSE
    /\ typed = <<>>
    /\ configFile = AbsentFile
    /\ configBefore = AbsentFile
    /\ authCfg = ZeroConfig
    /\ authErr = NilError
    /\ authRequests = <<>>
    /\ verification = ""

TextIdle ==
    /\ adfDoc = AdfNil
    /\ adfText = <<>>
    /\ dateIn = <<>>
    /\ dateOut = <<>>

ViewIdle ==
    /\ commentLimit = 0
    /\ viewRequests = <<>>
    /\ commentsResp = <<>>
    /\ comments = <<>>
    /\ viewErr = NilError

AssignIdle ==
    /\ assignEmail = <<>>
    /\ assignGets = <<>>
    /\ assignReporter = <<>>
    /\ assignUsers = <<>>
    /\ assignPuts = <<>>
    /\ assignErr = NilError

\* Nothing returned yet.
NoMatchResult == MatchResult(ZeroTransition, "", <<>>, NilError)

(***************************************************************************)
(* Errors of the commands.  The text that follows the fixed part of an     *)
(* error of the transport, of the server or of the JSON decoder comes from *)
(* outside the program and is left out.                                    *)
(***************************************************************************)

\* issue key is required (e.g. jiractl issues transition PROJ-123 --status "In Progress")
ErrIssueKeyRequired ==
    NewError(
      <<105, 115, 115, 117, 101, 32, 107, 101, 121, 32, 105, 115, 32, 114,
        101, 113, 117, 105, 114, 101, 100, 32, 40, 101, 46, 103, 46, 32,
        106, 105, 114, 97, 99, 116, 108, 32, 105, 115, 115, 117, 101, 115,
        32, 116, 114, 97, 110, 115, 105, 116, 105, 111, 110, 32, 80, 82,
        79, 74, 45, 49, 50, 51, 32, 45, 45, 115, 116, 97, 116, 117, 115,
        32, 34, 73, 110, 32, 80, 114, 111, 103, 114, 101, 115, 115, 34, 41>>)

\* --status is required (e.g. --status "In Progress")
ErrStatusFlagRequired ==
    NewError(
      <<45, 45, 115, 116, 97, 116, 117, 115, 32, 105, 115, 32, 114, 101,
        113, 117, 105, 114, 101, 100, 32, 40, 101, 46, 103, 46, 32, 45, 45,
        115, 116, 97, 116, 117, 115, 32, 34, 73, 110, 32, 80, 114, 111,
        103, 114, 101, 115, 115, 34, 41>>)

\* not authenticated; run: jiractl auth login --server URL --email EMAIL
ErrNotAuthenticated ==
    NewError(
      <<110, 111, 116, 32, 97, 117, 116, 104, 101, 110, 116, 105, 99, 97,
        116, 101, 100, 59, 32, 114, 117, 110, 58, 32, 106, 105, 114, 97,
        99, 116, 108, 32, 97, 117, 116, 104, 32, 108, 111, 103, 105, 110,
        32, 45, 45, 115, 101, 114, 118, 101, 114, 32, 85, 82, 76, 32, 45,
        45, 101, 109, 97, 105, 108, 32, 69, 77, 65, 73, 76>>)

\* jira api request failed
ErrRequestFailed ==
    NewError(
      <<106, 105, 114, 97, 32, 97, 112, 105, 32, 114, 101, 113, 117, 101,
        115, 116, 32, 102, 97, 105, 108, 101, 100>>)

\* jira api error
ErrAPIError ==
    NewError(
      <<106, 105, 114, 97, 32, 97, 112, 105, 32, 101, 114, 114, 111, 114>>)

\* invalid character
ErrDecode ==
    NewError(
      <<105, 110, 118, 97, 108, 105, 100, 32, 99, 104, 97, 114, 97, 99,
        116, 101, 114>>)

\* parse: the error of url.Parse
ErrBadURL ==
    NewError(
      <<112, 97, 114, 115, 101>>)

\* How a request can end: the transport fails (client.Do returns an error),
\* the server answers with a status that means failure, the body cannot be
\* decoded, or the request succeeds.
\* An error about config.json or its directory (loadConfig, configPath,
\* os.Remove): its text comes from os or encoding/json.
ErrLoadConfig ==
    NewError(
      <<99, 111, 110, 102, 105, 103, 46, 106, 115, 111, 110>>)

GetOutcomes == {"transport", "status", "decode", "ok"}
PostOutcomes == {"transport", "status", "ok"}

\* The error decodeAPIResponse / client.Do give for a failed GET.
RequestError(outcome) ==
    CASE outcome = "transport" -> ErrRequestFailed
      [] outcome = "status"    -> ErrAPIError
      [] outcome = "decode"    -> ErrDecode
      [] OTHER                 -> NilError

(***************************************************************************)
(* matchTransition called on its own, as the tests of main_test.go do      *)
(***************************************************************************)

CallMatchTransition ==
    /\ pc = "start"
    /\ \E list \in TransitionLists :
          /\ transitions' = list
          /\ matched' = matchTransition(list, status)
    /\ pc' = "returned"
    /\ UNCHANGED <<status, posts, cmdErr, notTransitionVars>>

(***************************************************************************)
(* jiractl issues transition KEY --status STATUS  (runIssuesTransition)    *)
(***************************************************************************)

\* The command line gives no issue key.
TransitionNoIssueKey ==
    /\ pc = "start"
    /\ pc' = "exit"
    /\ cmdErr' = ErrIssueKeyRequired
    /\ UNCHANGED <<status, transitions, matched, posts, notTransitionVars>>

\* The command line gives an issue key: the check of --status.
TransitionCheckStatus ==
    /\ pc = "start"
    /\ IF status = <<>>
       THEN pc' = "exit" /\ cmdErr' = ErrStatusFlagRequired
       ELSE pc' = "loadAuthConfig" /\ cmdErr' = cmdErr
    /\ UNCHANGED <<status, transitions, matched, posts, notTransitionVars>>

\* loadAuthConfig, as the command sees it: a configuration, the error of
\* loadConfig, or the error of an incomplete configuration.
TransitionLoadAuthConfig ==
    /\ pc = "loadAuthConfig"
    /\ \E outcome \in {"ok", "loadConfig", "incomplete"} :
          CASE outcome = "ok" ->
                 pc' = "getTransitions" /\ cmdErr' = cmdErr
            [] outcome = "loadConfig" ->
                 pc' = "exit" /\ cmdErr' = ErrLoadConfig
            [] OTHER ->
                 pc' = "exit" /\ cmdErr' = ErrNotAuthenticated
    /\ UNCHANGED <<status, transitions, matched, posts, notTransitionVars>>

\* getTransitions: one GET, unless the request cannot be built of the
\* server of the configuration; the server's answer is any list of
\* transitions.
TransitionGetTransitions ==
    /\ pc = "getTransitions"
    /\ \E outcome \in GetOutcomes \cup {"badurl"} :
          IF outcome = "ok"
          THEN /\ \E list \in TransitionLists : transitions' = list
               /\ pc' = "matchTransition"
               /\ cmdErr' = cmdErr
          ELSE /\ transitions' = transitions
               /\ pc' = "exit"
               /\ cmdErr' = IF outcome = "badurl" THEN ErrBadURL
                             ELSE RequestError(outcome)
    /\ UNCHANGED <<status, matched, posts, notTransitionVars>>

\* The call of matchTransition and the check of its error.
TransitionMatch ==
    /\ pc = "matchTransition"
    /\ matched' = matchTransition(transitions, status)
    /\ IF matched'.err.failed
       THEN pc' = "exit" /\ cmdErr' = matched'.err
       ELSE pc' = "doTransition" /\ cmdErr' = cmdErr
    /\ UNCHANGED <<status, transitions, posts, notTransitionVars>>

\* Variant: the name of the matched transition is posted.
postedID_name(m) == m.transition.Name

\* doTransition(cfg, issueKey, matched.ID)
postedID(m) == m.transition.ID

\* doTransition: one POST of the id of the matched transition; any answer
\* other than 204 No Content is an error.
TransitionDoTransition ==
    /\ pc = "doTransition"
    /\ posts' = Append(posts, postedID(matched))
    /\ \E outcome \in PostOutcomes :
          cmdErr' = RequestError(outcome)
    /\ pc' = "exit"
    /\ UNCHANGED <<status, transitions, matched, notTransitionVars>>

InitTransition ==
    /\ pc = "start"
    /\ status \in StatusArgs
    /\ transitions = <<>>
    /\ matched = NoMatchResult
    /\ posts = <<>>
    /\ cmdErr = NilError
    /\ SearchIdle
    /\ AuthIdle
    /\ TextIdle
    /\ ViewIdle
    /\ AssignIdle

NextTransition ==
    \/ CallMatchTransition
    \/ TransitionNoIssueKey
    \/ TransitionCheckStatus
    \/ TransitionLoadAuthConfig
    \/ TransitionGetTransitions
    \/ TransitionMatch
    \/ TransitionDoTransition

SpecTransition == InitTransition /\ [][NextTransition]_vars

(***************************************************************************)
(* searchIssues                                                            *)
(***************************************************************************)

\* The most issues one page request asks for.
PageCap == 100

\* The continuation tokens of the server; the empty one means no token.
Tokens == {"", "page-2", "page-3"}

\* An issue is modelled by the number k of its key PROJ-k.  The server
\* numbers the issues it sends in the order it sends them.
PageItems(sentBefore, count) == [k \in 1..count |-> sentBefore + k]

\* The limits searchIssues is called with: small limits, and limits just
\* over the greatest maxResults, for which the first request is capped.
Limits == 1..MaxLimit \cup {PageCap + k : k \in 1..MaxLimit}

\* The numbers of issues a page can hold: a few issues for a small limit,
\* and as many half pages of the greatest maxResults for a large one.
PageSizes(lim) ==
    {k * (IF lim <= MaxLimit THEN 1 ELSE PageCap \div 2) : k \in 0..MaxPageItems}

\* The pages a successful request can decode: any number of issues (the
\* server need not respect maxResults), any total, any token.
Pages(sentBefore, lim) ==
    {[Issues |-> PageItems(sentBefore, count), Total |-> total,
      NextPageToken |-> token] :
        count \in PageSizes(lim), total \in 0..MaxTotal, token \in Tokens}

minInt(a, b) == IF a < b THEN a ELSE b

\* Variant: the number of issues still missing is asked for, uncapped.
maxResultsOf_uncapped(lim, accumulated) == lim - Len(accumulated)

\* maxResults of the next page request.
maxResultsOf(lim, accumulated) == minInt(lim - Len(accumulated), PageCap)

\* Variant: one more page is asked for when the limit is exactly reached.
moreWanted_orEqual(accumulated, lim) == Len(accumulated) <= lim

\* for len(all) < limit
moreWanted(accumulated, lim) == Len(accumulated) < lim

\* Variant: the first continuation token is kept for every later request.
nextToken_sticky(old, page) ==
    IF old # "" THEN old ELSE page.NextPageToken

\* nextPageToken = searchResp.NextPageToken
nextToken(old, page) == page.NextPageToken

\* Variant: only a missing token ends the loop.
lastPage_tokenOnly(page, token) == token = ""

\* if len(searchResp.Issues) == 0 || nextPageToken == "" { break }
lastPage(page, token) == Len(page.Issues) = 0 \/ token = ""

\* Variant: the page is put in front of the issues accumulated.
appendPage_inFront(accumulated, page) == page.Issues \o accumulated

\* all = append(all, searchResp.Issues...)
appendPage(accumulated, page) == accumulated \o page.Issues

\* Variant: the issues over the limit are kept.
truncate_never(accumulated, lim) == accumulated

\* if len(all) > limit { all = all[:limit] }
truncate(accumulated, lim) ==
    IF Len(accumulated) > lim THEN SubSeq(accumulated, 1, lim) ELSE accumulated

\* result.Total = searchResp.Total, variant: the greatest total so far.
recordTotal_greatest(res, page) ==
    [res EXCEPT !.Total = IF page.Total > res.Total THEN page.Total ELSE res.Total]

\* result.Total = searchResp.Total
recordTotal(res, page) == [res EXCEPT !.Total = page.Total]

\* Variant: the issues accumulated so far are returned with the error.
resultOnError_partial(res, accumulated) ==
    [res EXCEPT !.Issues = accumulated]

\* return result, err: the result as it is when a page request fails.
resultOnError(res, accumulated) == res

\* Variant: only the token counts.
hasMore_tokenOnly(token, issues, total) == token # ""

\* Variant: as many issues as the total still means more.
hasMore_orEqual(token, issues, total) == token # "" \/ Len(issues) <= total

\* result.HasMore, computed after the truncation.
hasMore(token, issues, total) == token # "" \/ Len(issues) < total

\* The head of the loop and, if the loop goes on, the page request.
SearchLoop ==
    /\ pc = "loop"
    /\ IF moreWanted(all, limit)
       THEN /\ request' = <<[maxResults |-> maxResultsOf(limit, all),
                             nextPageToken |-> nextPageToken]>>
            /\ numRequests' = numRequests + 1
            /\ pc' = "waiting"
       ELSE /\ pc' = "after"
            /\ UNCHANGED <<request, numRequests>>
    /\ UNCHANGED <<limit, all, nextPageToken, result, searchErr, response,
                   received, notSearchVars>>

\* The server URL of the configuration cannot be parsed: the function
\* returns in its first iteration, before any request.
SearchBadURL ==
    /\ pc = "loop"
    /\ Len(all) < limit
    /\ numRequests = 0
    /\ searchErr' = ErrBadURL
    /\ pc' = "done"
    /\ UNCHANGED <<limit, all, nextPageToken, result, request, numRequests,
                   response, received, notSearchVars>>

\* The page request fails: the error is returned with the result as it is.
SearchRequestFails ==
    /\ pc = "waiting"
    /\ \E outcome \in GetOutcomes \ {"ok"} : searchErr' = RequestError(outcome)
    /\ result' = resultOnError(result, all)
    /\ pc' = "done"
    /\ UNCHANGED <<limit, all, nextPageToken, request, numRequests,
                   response, received, notSearchVars>>

\* A page is decoded: the rest of the loop body.
SearchPage ==
    /\ pc = "waiting"
    /\ \E page \in Pages(Len(received), limit) :
          /\ response' = <<page>>
          /\ received' = received \o page.Issues
          /\ result' = recordTotal(result, page)
          /\ all' = appendPage(all, page)
          /\ nextPageToken' = nextToken(nextPageToken, page)
          /\ pc' = IF lastPage(page, nextToken(nextPageToken, page))
                   THEN "after" ELSE "loop"
    /\ UNCHANGED <<limit, searchErr, request, numRequests, notSearchVars>>

\* The statements after the loop.
SearchReturn ==
    /\ pc = "after"
    /\ all' = truncate(all, limit)
    /\ result' = [Issues |-> all', Total |-> result.Total,
                  HasMore |-> hasMore(nextPageToken, all', result.Total)]
    /\ pc' = "done"
    /\ UNCHANGED <<limit, nextPageToken, searchErr, request, numRequests,
                   response, received, notSearchVars>>

\* searchIssues is called with a limit its callers have checked to be
\* greater than 0.
InitSearch ==
    /\ pc = "loop"
    /\ limit \in Limits
    /\ all = <<>>
    /\ nextPageToken = ""
    /\ result = ZeroSearchResult
    /\ searchErr = NilError
    /\ request = <<>>
    /\ numRequests = 0
    /\ response = <<>>
    /\ received = <<>>
    /\ TransitionIdle
    /\ AuthIdle
    /\ TextIdle
    /\ ViewIdle
    /\ AssignIdle

NextSearch ==
    \/ SearchLoop
    \/ SearchBadURL
    \/ SearchRequestFails
    \/ SearchPage
    \/ SearchReturn

SpecSearch == InitSearch /\ [][NextSearch]_vars

(***************************************************************************)
(* Configuration: auth login, auth status, loadAuthConfig                  *)
(***************************************************************************)

\* --server is required (or set JIRACTL_SERVER)
ErrServerRequired ==
    NewError(
      <<45, 45, 115, 101, 114, 118, 101, 114, 32, 105, 115, 32, 114,
        101, 113, 117, 105, 114, 101, 100, 32, 40, 111, 114, 32, 115,
        101, 116, 32, 74, 73, 82, 65, 67, 84, 76, 95, 83, 69, 82, 86,
        69, 82, 41>>)

\* --email is required (or set JIRACTL_EMAIL)
ErrEmailRequired ==
    NewError(
      <<45, 45, 101, 109, 97, 105, 108, 32, 105, 115, 32, 114, 101, 113,
        117, 105, 114, 101, 100, 32, 40, 111, 114, 32, 115, 101, 116,
        32, 74, 73, 82, 65, 67, 84, 76, 95, 69, 77, 65, 73, 76, 41>>)

\* --token is required in non-interactive mode (or set JIRACTL_API_TOKEN)
ErrTokenRequired ==
    NewError(
      <<45, 45, 116, 111, 107, 101, 110, 32, 105, 115, 32, 114, 101,
        113, 117, 105, 114, 101, 100, 32, 105, 110, 32, 110, 111, 110,
        45, 105, 110, 116, 101, 114, 97, 99, 116, 105, 118, 101, 32,
        109, 111, 100, 101, 32, 40, 111, 114, 32, 115, 101, 116, 32, 74,
        73, 82, 65, 67, 84, 76, 95, 65, 80, 73, 95, 84, 79, 75, 69, 78,
        41>>)

\* API token cannot be empty
ErrTokenEmpty ==
    NewError(
      <<65, 80, 73, 32, 116, 111, 107, 101, 110, 32, 99, 97, 110, 110,
        111, 116, 32, 98, 101, 32, 101, 109, 112, 116, 121>>)

\* failed to connect to
ErrConnect ==
    NewError(
      <<102, 97, 105, 108, 101, 100, 32, 116, 111, 32, 99, 111, 110,
        110, 101, 99, 116, 32, 116, 111>>)

\* auth verification failed
ErrVerification ==
    NewError(
      <<97, 117, 116, 104, 32, 118, 101, 114, 105, 102, 105, 99, 97,
        116, 105, 111, 110, 32, 102, 97, 105, 108, 101, 100>>)

\* failed to parse auth response
ErrParseAuth ==
    NewError(
      <<102, 97, 105, 108, 101, 100, 32, 116, 111, 32, 112, 97, 114,
        115, 101, 32, 97, 117, 116, 104, 32, 114, 101, 115, 112, 111,
        110, 115, 101>>)

\* failed to save config
ErrSaveConfig ==
    NewError(
      <<102, 97, 105, 108, 101, 100, 32, 116, 111, 32, 115, 97, 118,
        101, 32, 99, 111, 110, 102, 105, 103>>)

\* strings.TrimRight(s, cutset)
RECURSIVE TrimRightCutset(_, _)
TrimRightCutset(s, cutset) ==
    IF s # <<>> /\ s[Len(s)] \in cutset
    THEN TrimRightCutset(SubSeq(s, 1, Len(s) - 1), cutset)
    ELSE s

\* The first of the values that is not blank, trimmed.
RECURSIVE firstNonEmpty(_)
firstNonEmpty(values) ==
    IF values = <<>> THEN <<>>
    ELSE IF TrimSpace(Head(values)) # <<>> THEN TrimSpace(Head(values))
    ELSE firstNonEmpty(Tail(values))

\* The values of the environment: "", "s", "s/"; "", "e"; "", "t", " ".
EnvConfigs ==
    [Server : {<<>>, <<115>>, <<115, 47>>}, Email : {<<>>, <<101>>},
     APIToken : {<<>>, <<116>>, <<32>>}]

\* The values config.json can hold: "", "S"; "", "E"; "", "T".
FileConfigs ==
    [Server : {<<>>, <<83>>}, Email : {<<>>, <<69>>}, APIToken : {<<>>, <<84>>}]

\* The values of the flags of auth login: "", " ", "f/"; "", "g"; "", "k".
LoginFlags ==
    [server : {<<>>, <<32>>, <<102, 47>>}, email : {<<>>, <<103>>},
     token : {<<>>, <<107>>}]

\* The lines typed at the token prompt: "" (also: no line) and "p ".
TypedLines == {<<>>, <<112, 32>>}

\* config.json cannot be read or is not the JSON of a Config; the directory
\* of the configuration cannot be found or made.
UnreadableFile == [state |-> "unreadable", cfg |-> ZeroConfig]

\* config.json holds the Config c.  The strings of the model are ASCII, which
\* json.MarshalIndent and json.Unmarshal give back as they are.
ValidFile(c) == [state |-> "valid", cfg |-> c]

ConfigFiles == {AbsentFile, UnreadableFile} \cup {ValidFile(c) : c \in FileConfigs}

\* How the verification request of auth login can end: the URL cannot be
\* parsed, the transport fails, the status is not 200, the body cannot be
\* decoded, or the status is 200 with the JSON of a user.
VerifyOutcomes == {"badurl", "transport", "status", "decode", "ok"}

VerifyError(outcome) ==
    CASE outcome = "badurl"    -> ErrBadURL
      [] outcome = "transport" -> ErrConnect
      [] outcome = "status"    -> ErrVerification
      [] outcome = "decode"    -> ErrParseAuth
      [] OTHER                 -> NilError

\* Variant: every answer of the server counts as a verification.
verified_anyAnswer(outcome) == outcome \in {"status", "decode", "ok"}

\* The checks between the verification request and saveConfig.
verified(outcome) == outcome = "ok"

\* How saveConfig can end: written, no path of the configuration, or
\* os.WriteFile fails.
SaveOutcomes == {"ok", "path", "write"}

\* runAuthLogin up to the verification request: server, email and token
\* from flag, environment or prompt.
LoginResolve ==
    /\ pc = "login"
    /\ LET srv0 == firstNonEmpty(<<flags.server, env.Server>>)
           srv  == TrimRightCutset(srv0, {47})
           em   == firstNonEmpty(<<flags.email, env.Email>>)
           tok0 == firstNonEmpty(<<flags.token, env.APIToken>>)
           tok  == IF tok0 # <<>> THEN tok0 ELSE TrimSpace(typed)
           fail(e) == pc' = "exit" /\ authErr' = e /\ authCfg' = authCfg
       IN  IF srv0 = <<>> THEN fail(ErrServerRequired)
           ELSE IF em = <<>> THEN fail(ErrEmailRequired)
           ELSE IF tok0 = <<>> /\ ~interactive THEN fail(ErrTokenRequired)
           ELSE IF tok = <<>> THEN fail(ErrTokenEmpty)
           ELSE /\ authCfg' = [Server |-> srv, Email |-> em, APIToken |-> tok]
                /\ authErr' = authErr
                /\ pc' = "verify"
    /\ UNCHANGED <<command, flags, env, interactive, typed, configFile,
                   configBefore, authRequests, verification, notAuthVars>>

\* The verification request GET /rest/api/3/myself and the checks of its
\* answer.
LoginVerify ==
    /\ pc = "verify"
    /\ \E outcome \in VerifyOutcomes :
          /\ verification' = outcome
          /\ authRequests' = IF outcome = "badurl" THEN authRequests
                             ELSE Append(authRequests, "myself")
          /\ IF verified(outcome)
             THEN pc' = "saveConfig" /\ authErr' = authErr
             ELSE pc' = "exit" /\ authErr' = VerifyError(outcome)
    /\ UNCHANGED <<command, flags, env, interactive, typed, configFile,
                   configBefore, authCfg, notAuthVars>>

\* saveConfig(cfg) and the end of runAuthLogin.  A failed os.WriteFile leaves
\* config.json as it was or cut short.
LoginSave ==
    /\ pc = "saveConfig"
    /\ \E outcome \in SaveOutcomes :
          CASE outcome = "ok" ->
                 configFile' = ValidFile(authCfg) /\ authErr' = NilError
            [] outcome = "path" ->
                 configFile' = configFile /\ authErr' = ErrSaveConfig
            [] OTHER ->
                 /\ configFile' \in {configFile, UnreadableFile}
                 /\ authErr' = ErrSaveConfig
    /\ pc' = "exit"
    /\ UNCHANGED <<command, flags, env, interactive, typed, configBefore,
                   authCfg, authRequests, verification, notAuthVars>>

\* loadConfig: the Config of config.json, the zero Config when the file does
\* not exist, an error when it cannot be read or decoded.
loadConfig(file) ==
    CASE file.state = "absent"     -> [cfg |-> ZeroConfig, err |-> NilError]
      [] file.state = "unreadable" -> [cfg |-> ZeroConfig, err |-> ErrLoadConfig]
      [] OTHER                     -> [cfg |-> file.cfg, err |-> NilError]

\* Variant: a value of config.json wins over the environment.
loadAuthConfig_fileFirst(file, e) ==
    LET loaded == loadConfig(file)
        pick(v, w) == IF w # <<>> THEN w ELSE v
        cfg == [Server |-> pick(e.Server, loaded.cfg.Server),
                Email |-> pick(e.Email, loaded.cfg.Email),
                APIToken |-> pick(e.APIToken, loaded.cfg.APIToken)]
    IN  IF loaded.err.failed THEN [cfg |-> ZeroConfig, err |-> loaded.err]
        ELSE IF cfg.Server = <<>> \/ cfg.Email = <<>> \/ cfg.APIToken = <<>>
        THEN [cfg |-> ZeroConfig, err |-> ErrNotAuthenticated]
        ELSE [cfg |-> [cfg EXCEPT !.Server = TrimRightCutset(@, {47})],
              err |-> NilError]

\* loadAuthConfig with config.json in state file and the environment e.
loadAuthConfig(file, e) ==
    LET loaded == loadConfig(file)
        pick(v, w) == IF v # <<>> THEN v ELSE w
        cfg == [Server |-> pick(e.Server, loaded.cfg.Server),
                Email |-> pick(e.Email, loaded.cfg.Email),
                APIToken |-> pick(e.APIToken, loaded.cfg.APIToken)]
    IN  IF loaded.err.failed THEN [cfg |-> ZeroConfig, err |-> loaded.err]
        ELSE IF cfg.Server = <<>> \/ cfg.Email = <<>> \/ cfg.APIToken = <<>>
        THEN [cfg |-> ZeroConfig, err |-> ErrNotAuthenticated]
        ELSE [cfg |-> [cfg EXCEPT !.Server = TrimRightCutset(@, {47})],
              err |-> NilError]

\* jiractl auth status: loadAuthConfig, then what it returned is printed.
AuthStatus ==
    /\ pc = "authStatus"
    /\ LET loaded == loadAuthConfig(configFile, env)
       IN  authCfg' = loaded.cfg /\ authErr' = loaded.err
    /\ pc' = "exit"
    /\ UNCHANGED <<command, flags, env, interactive, typed, configFile,
                   configBefore, authRequests, verification, notAuthVars>>

\* An issues command (mine, view, search, transition, assign, comment) with
\* valid arguments: loadAuthConfig and the check of its error.
IssuesLoadAuthConfig ==
    /\ pc = "issues"
    /\ LET loaded == loadAuthConfig(configFile, env)
       IN  /\ authCfg' = loaded.cfg
           /\ authErr' = loaded.err
           /\ pc' = IF loaded.err.failed THEN "exit" ELSE "request"
    /\ UNCHANGED <<command, flags, env, interactive, typed, configFile,
                   configBefore, authRequests, verification, notAuthVars>>

\* The first request of the issues command, unless the server of the
\* configuration makes a URL that cannot be parsed, and the error the
\* command returns when the request fails.
IssuesRequest ==
    /\ pc = "request"
    /\ \E outcome \in GetOutcomes \cup {"badurl"} :
          /\ authRequests' = IF outcome = "badurl" THEN authRequests
                              ELSE Append(authRequests, "api")
          /\ authErr' = IF outcome = "badurl" THEN ErrBadURL
                         ELSE RequestError(outcome)
    /\ pc' = "exit"
    /\ UNCHANGED <<command, flags, env, interactive, typed, configFile,
                   configBefore, authCfg, verification, notAuthVars>>

\* jiractl auth logout: os.Remove of config.json.  A file that does not
\* exist is no error; any other failure, also of configPath, is returned and
\* leaves the file as it was.
AuthLogout ==
    /\ pc = "logout"
    /\ \E removed \in BOOLEAN :
          IF removed
          THEN configFile' = AbsentFile /\ authErr' = NilError
          ELSE configFile' = configFile /\ authErr' = ErrLoadConfig
    /\ pc' = "exit"
    /\ UNCHANGED <<command, flags, env, interactive, typed, configBefore,
                   authCfg, authRequests, verification, notAuthVars>>

InitAuth ==
    /\ command \in {"login", "status", "logout", "issues"}
    /\ pc = (CASE command = "login" -> "login"
               [] command = "status" -> "authStatus"
               [] command = "logout" -> "logout"
               [] OTHER -> "issues")
    /\ flags \in (IF command = "login" THEN LoginFlags ELSE {NoFlags})
    /\ env \in EnvConfigs
    /\ interactive \in (IF command = "login" THEN BOOLEAN ELSE {FALSE})
    /\ typed \in (IF interactive THEN TypedLines ELSE {<<>>})
    /\ configFile \in ConfigFiles
    /\ configBefore = configFile
    /\ authCfg = ZeroConfig
    /\ authErr = NilError
    /\ authRequests = <<>>
    /\ verification = ""
    /\ TransitionIdle
    /\ SearchIdle
    /\ TextIdle
    /\ ViewIdle
    /\ AssignIdle

NextAuth ==
    \/ LoginResolve
    \/ LoginVerify
    \/ LoginSave
    \/ AuthStatus
    \/ AuthLogout
    \/ IssuesLoadAuthConfig
    \/ IssuesRequest

SpecAuth == InitAuth /\ [][NextAuth]_vars

(***************************************************************************)
(* adfToText: the text of a document in Atlassian Document Format          *)
(***************************************************************************)

\* Blocks under the root of a document.
MaxBlocks == 3

\* A decoded JSON value (type any) is a record: kind "nil", "string" (the
\* string is in text), "other" (a number, a boolean or an array) or "map".
\* Of a map, type is node["type"] when that is a string and "" otherwise,
\* hasText says that node["text"] is a string, hasContent that
\* node["content"] is an array.
AdfString(s) ==
    [kind |-> "string", type |-> "", hasText |-> FALSE, text |-> s,
     hasContent |-> FALSE, content |-> <<>>]

AdfOther ==
    [kind |-> "other", type |-> "", hasText |-> FALSE, text |-> <<>>,
     hasContent |-> FALSE, content |-> <<>>]

\* A map with the given type; own and kids are <<>> (no such key) or <<v>>.
AdfNode(typ, own, kids) ==
    [kind |-> "map", type |-> typ,
     hasText |-> own # <<>>, text |-> IF own = <<>> THEN <<>> ELSE own[1],
     hasContent |-> kids # <<>>,
     content |-> IF kids = <<>> THEN <<>> ELSE kids[1]]

\* The types of the children after which a newline is written.
BlockTypes ==
    {"paragraph", "heading", "bulletList", "orderedList", "blockquote",
     "codeBlock", "mediaSingle", "rule"}

\* Variant: a newline follows every block, the last child included.
separates_afterLast(child, i, n) == child.type \in BlockTypes

\* The test that guards the newline written after the i-th of n children.
separates(child, i, n) == child.type \in BlockTypes /\ i < n

RECURSIVE adfExtract(_)
RECURSIVE adfChildren(_, _)

\* The loop over content of adfExtract, from the i-th child on: a child that
\* is not a map is skipped; a newline follows a block that is not the last
\* child.
adfChildren(content, i) ==
    IF i > Len(content) THEN <<>>
    ELSE LET child == content[i]
             piece == IF child.kind # "map" THEN <<>>
                      ELSE adfExtract(child) \o
                           (IF separates(child, i, Len(content))
                            THEN <<10>> ELSE <<>>)
         IN  piece \o adfChildren(content, i + 1)

\* Variant: the text of a node is written after its children.
adfExtract_childrenFirst(node) ==
    (IF ~node.hasContent THEN <<>>
     ELSE adfChildren(node.content, 1) \o
          (IF node.type = "listItem" THEN <<10>> ELSE <<>>))
    \o (IF node.hasText THEN node.text ELSE <<>>)

\* What adfExtract writes to the builder for a node.
adfExtract(node) ==
    (IF node.hasText THEN node.text ELSE <<>>)
    \o (IF ~node.hasContent THEN <<>>
        ELSE adfChildren(node.content, 1) \o
             (IF node.type = "listItem" THEN <<10>> ELSE <<>>))

adfToText(v) ==
    CASE v.kind = "nil"    -> <<>>
      [] v.kind = "string" -> v.text
      [] v.kind = "map"    -> TrimSpace(adfExtract(v))
      [] OTHER             -> <<>>

\* The texts of the text nodes: "A", "B", " A", "B " and "".
AdfTexts == {<<65>>, <<66>>, <<32, 65>>, <<66, 32>>, <<>>}

TextNode(t) == AdfNode("text", <<t>>, <<>>)

Paragraph(t) == AdfNode("paragraph", <<>>, << <<TextNode(t)>> >>)

\* The children of the root: a paragraph of one text node; a node with a text
\* of its own and a text node below; a list of one item; a text node; a value
\* that is not a map; a paragraph without content.
AdfBlocks ==
    {Paragraph(t) : t \in AdfTexts}
    \cup {AdfNode("heading", <<t>>, << <<TextNode(<<66>>)>> >>) :
             t \in {<<65>>, <<32, 65>>}}
    \cup {AdfNode("bulletList", <<>>,
                  << <<AdfNode("listItem", <<>>, << <<Paragraph(<<65>>)>> >>)>> >>),
          TextNode(<<66>>),
          AdfOther,
          AdfNode("paragraph", <<>>, <<>>)}

AdfDocs ==
    {AdfNode("doc", <<>>, <<blocks>>) : blocks \in StringsUpTo(AdfBlocks, MaxBlocks)}

AdfInputs == {AdfNil, AdfOther} \cup {AdfString(t) : t \in AdfTexts} \cup AdfDocs

CallAdfToText ==
    /\ pc = "adfToText"
    /\ adfText' = <<adfToText(adfDoc)>>
    /\ pc' = "returned"
    /\ UNCHANGED <<adfDoc, dateIn, dateOut, notTextVars>>

InitAdf ==
    /\ pc = "adfToText"
    /\ adfDoc \in AdfInputs
    /\ adfText = <<>>
    /\ dateIn = <<>>
    /\ dateOut = <<>>
    /\ TransitionIdle
    /\ SearchIdle
    /\ AuthIdle
    /\ ViewIdle
    /\ AssignIdle

NextAdf == CallAdfToText

SpecAdf == InitAdf /\ [][NextAdf]_vars

(***************************************************************************)
(* adfToText on documents with nested blocks and lists                     *)
(***************************************************************************)

ListItem(kids) == AdfNode("listItem", <<>>, <<kids>>)

BulletList(items) == AdfNode("bulletList", <<>>, <<items>>)

\* The children of the root: the paragraphs A and B; a text node; a value
\* that is not a map; a blockquote of two paragraphs; a blockquote whose
\* last child is not a map; a list of two items; a list whose first item
\* holds a paragraph and a list of one item below it.
TreeBlocks ==
    {Paragraph(<<65>>),
     Paragraph(<<66>>),
     TextNode(<<66>>),
     AdfOther,
     AdfNode("blockquote", <<>>, << <<Paragraph(<<65>>), Paragraph(<<66>>)>> >>),
     AdfNode("blockquote", <<>>, << <<Paragraph(<<65>>), AdfOther>> >>),
     BulletList(<<ListItem(<<Paragraph(<<65>>)>>),
                  ListItem(<<Paragraph(<<66>>)>>)>>),
     BulletList(<<ListItem(<<Paragraph(<<65>>),
                             BulletList(<<ListItem(<<Paragraph(<<66>>)>>)>>)>>),
                  ListItem(<<Paragraph(<<65>>)>>)>>)}

TreeDocs ==
    {AdfNode("doc", <<>>, <<blocks>>) : blocks \in StringsUpTo(TreeBlocks, MaxBlocks)}

InitAdfTree ==
    /\ pc = "adfToText"
    /\ adfDoc \in TreeDocs
    /\ adfText = <<>>
    /\ dateIn = <<>>
    /\ dateOut = <<>>
    /\ TransitionIdle
    /\ SearchIdle
    /\ AuthIdle
    /\ ViewIdle
    /\ AssignIdle

SpecAdfTree == InitAdfTree /\ [][NextAdf]_vars

(***************************************************************************)
(* formatDate, with time.Parse and Time.Format for its two layouts         *)
(***************************************************************************)

IsDigit(c) == c \in 48..57

\* time.getnum: one or two digits, two when fixed.  What is parsed is
\* threaded as a record [ok, rest, val].
getnum(s, fixed) ==
    IF s = <<>> \/ ~IsDigit(s[1]) THEN [ok |-> FALSE, rest |-> s, val |-> 0]
    ELSE IF Len(s) < 2 \/ ~IsDigit(s[2])
    THEN [ok |-> ~fixed, rest |-> Tail(s), val |-> s[1] - 48]
    ELSE [ok |-> TRUE, rest |-> SubSeq(s, 3, Len(s)),
          val |-> (s[1] - 48) * 10 + (s[2] - 48)]

\* A literal byte of the layout.
parseLiteral(st, c) ==
    IF st.ok /\ st.rest # <<>> /\ st.rest[1] = c
    THEN [st EXCEPT !.rest = Tail(@)]
    ELSE [st EXCEPT !.ok = FALSE]

\* A number of the layout and its range.
parseNumber(st, fixed, lo, hi) ==
    LET n == getnum(st.rest, fixed)
    IN  IF st.ok /\ n.ok /\ n.val >= lo /\ n.val <= hi THEN n
        ELSE [ok |-> FALSE, rest |-> st.rest, val |-> 0]

\* "2006": four bytes, all digits.
parseYear(s) ==
    IF Len(s) >= 4 /\ \A i \in 1..4 : IsDigit(s[i])
    THEN [ok |-> TRUE, rest |-> SubSeq(s, 5, Len(s)),
          val |-> (s[1] - 48) * 1000 + (s[2] - 48) * 100
                  + (s[3] - 48) * 10 + (s[4] - 48)]
    ELSE [ok |-> FALSE, rest |-> s, val |-> 0]

RECURSIVE dropDigits(_)
dropDigits(s) == IF s # <<>> /\ IsDigit(s[1]) THEN dropDigits(Tail(s)) ELSE s

\* The fraction of the second.  ".000": a period or comma and three bytes
\* that time.atoi takes (digits, after an optional sign) for a number that
\* is not negative.  ".999": nothing, or a period or comma and digits.
parseFraction(st, threeDigits) ==
    LET v == st.rest
        sep == v # <<>> /\ v[1] \in {44, 46}
        signed == Len(v) >= 2 /\ v[2] \in {43, 45}
        from == IF signed THEN 3 ELSE 2
    IN  IF ~st.ok THEN st
        ELSE IF threeDigits
        THEN IF /\ Len(v) >= 4
                /\ sep
                /\ \A i \in from..4 : IsDigit(v[i])
                /\ ~(v[2] = 45 /\ \E i \in 3..4 : v[i] # 48)
             THEN [st EXCEPT !.rest = SubSeq(v, 5, Len(v))]
             ELSE [st EXCEPT !.ok = FALSE]
        ELSE IF Len(v) < 2 \/ ~sep \/ ~IsDigit(v[2]) THEN st
        ELSE [st EXCEPT !.rest = dropDigits(Tail(v))]

\* "-0700": a sign, two digits of hours up to 24 and two of minutes up to
\* 60.
parseZone(st) ==
    LET v == st.rest
    IN  IF /\ st.ok
           /\ Len(v) >= 5
           /\ v[1] \in {43, 45}
           /\ \A i \in 2..5 : IsDigit(v[i])
           /\ (v[2] - 48) * 10 + (v[3] - 48) <= 24
           /\ (v[4] - 48) * 10 + (v[5] - 48) <= 60
        THEN [st EXCEPT !.rest = SubSeq(v, 6, Len(v))]
        ELSE [st EXCEPT !.ok = FALSE]

\* time.daysIn
daysIn(month, year) ==
    IF month = 2
    THEN IF year % 4 = 0 /\ (year % 100 # 0 \/ year % 400 = 0) THEN 29 ELSE 28
    ELSE IF month \in {4, 6, 9, 11} THEN 30 ELSE 31

\* time.Parse with the layout 2006-01-02T15:04:05.000-0700 (threeDigits) or
\* 2006-01-02T15:04:05.999-0700: whether s parses, and its date.
timeParse(threeDigits, s) ==
    LET year   == parseYear(s)
        month  == parseNumber(parseLiteral(year, 45), TRUE, 1, 12)
        day    == parseNumber(parseLiteral(month, 45), TRUE, 0, 99)
        hour   == parseNumber(parseLiteral(day, 84), FALSE, 0, 23)
        minute == parseNumber(parseLiteral(hour, 58), TRUE, 0, 59)
        second == parseNumber(parseLiteral(minute, 58), TRUE, 0, 59)
        zone   == parseZone(parseFraction(second, threeDigits))
    IN  [ok |-> /\ zone.ok
                /\ zone.rest = <<>>
                /\ day.val >= 1
                /\ day.val <= daysIn(month.val, year.val),
         year |-> year.val, month |-> month.val, day |-> day.val]

\* n in decimal, padded with zeros to the width.
RECURSIVE zeroPad(_, _)
zeroPad(n, width) ==
    IF width = 0 THEN <<>> ELSE zeroPad(n \div 10, width - 1) \o <<48 + (n % 10)>>

\* t.Format("2006-01-02")
formatYMD(t) ==
    zeroPad(t.year, 4) \o <<45>> \o zeroPad(t.month, 2) \o <<45>> \o zeroPad(t.day, 2)

\* Variant: what does not parse is returned whole.
formatDate_uncut(s) ==
    IF s = <<>> THEN <<>>
    ELSE IF timeParse(TRUE, s).ok THEN formatYMD(timeParse(TRUE, s))
    ELSE IF timeParse(FALSE, s).ok THEN formatYMD(timeParse(FALSE, s))
    ELSE s

formatDate(s) ==
    IF s = <<>> THEN <<>>
    ELSE IF timeParse(TRUE, s).ok THEN formatYMD(timeParse(TRUE, s))
    ELSE IF timeParse(FALSE, s).ok THEN formatYMD(timeParse(FALSE, s))
    ELSE IF Len(s) >= 10 THEN SubSeq(s, 1, 10)
    ELSE s

\* The timestamps given to formatDate, whole or cut short to 0, 5, 9, 10 or
\* 11 bytes: one of the dates 2024-02-29, 2023-02-29, 2024-13-01, 2024-1-05,
\* 20x4-01-01; one of the times T10:20:30, T9:20:30, T24:00:00, T10:20,
\* " 10:20:30"; one of the fractions "", .000, .5, .1234, ",250"; one of the
\* zones +0000, -0700, Z, +01:00, "".
DateInputs ==
    LET dates ==
            {<<50, 48, 50, 52, 45, 48, 50, 45, 50, 57>>,
             <<50, 48, 50, 51, 45, 48, 50, 45, 50, 57>>,
             <<50, 48, 50, 52, 45, 49, 51, 45, 48, 49>>,
             <<50, 48, 50, 52, 45, 49, 45, 48, 53>>,
             <<50, 48, 120, 52, 45, 48, 49, 45, 48, 49>>}
        times ==
            {<<84, 49, 48, 58, 50, 48, 58, 51, 48>>,
             <<84, 57, 58, 50, 48, 58, 51, 48>>,
             <<84, 50, 52, 58, 48, 48, 58, 48, 48>>,
             <<84, 49, 48, 58, 50, 48>>,
             <<32, 49, 48, 58, 50, 48, 58, 51, 48>>}
        fractions ==
            {<<>>,
             <<46, 48, 48, 48>>,
             <<46, 53>>,
             <<46, 49, 50, 51, 52>>,
             <<44, 50, 53, 48>>}
        zones ==
            {<<43, 48, 48, 48, 48>>,
             <<45, 48, 55, 48, 48>>,
             <<90>>,
             <<43, 48, 49, 58, 48, 48>>,
             <<>>}
        whole == {d \o tm \o f \o z :
                     d \in dates, tm \in times, f \in fractions, z \in zones}
    IN  whole \cup {SubSeq(w, 1, k) : w \in whole, k \in {0, 5, 9, 10, 11}}

CallFormatDate ==
    /\ pc = "formatDate"
    /\ dateOut' = <<formatDate(dateIn)>>
    /\ pc' = "returned"
    /\ UNCHANGED <<adfDoc, adfText, dateIn, notTextVars>>

InitDate ==
    /\ pc = "formatDate"
    /\ dateIn \in DateInputs
    /\ dateOut = <<>>
    /\ adfDoc = AdfNil
    /\ adfText = <<>>
    /\ TransitionIdle
    /\ SearchIdle
    /\ AuthIdle
    /\ ViewIdle
    /\ AssignIdle

NextDate == CallFormatDate

SpecDate == InitDate /\ [][NextDate]_vars

(***************************************************************************)
(* jiractl issues view KEY --comment-limit N  (runIssuesView, getComments) *)
(***************************************************************************)

\* Comments in the response of the comment endpoint.
MaxComments == 3

\* --comment-limit must be greater than 0
ErrCommentLimit ==
    NewError(
      <<45, 45, 99, 111, 109, 109, 101, 110, 116, 45, 108, 105, 109,
        105, 116, 32, 109, 117, 115, 116, 32, 98, 101, 32, 103, 114,
        101, 97, 116, 101, 114, 32, 116, 104, 97, 110, 32, 48>>)

\* issue key is required (e.g. jiractl issues view PROJ-123)
ErrViewIssueKey ==
    NewError(
      <<105, 115, 115, 117, 101, 32, 107, 101, 121, 32, 105, 115, 32,
        114, 101, 113, 117, 105, 114, 101, 100, 32, 40, 101, 46, 103,
        46, 32, 106, 105, 114, 97, 99, 116, 108, 32, 105, 115, 115, 117,
        101, 115, 32, 118, 105, 101, 119, 32, 80, 82, 79, 74, 45, 49,
        50, 51, 41>>)

\* The values of --comment-limit; 20 is the default of the flag.
CommentLimits == {-1, 0, 1, 20, 37, 100, 101, 250}

\* A comment is modelled by the number of its id.  The server sends any
\* comments in any order, whatever maxResults asks.
CommentLists == StringsUpTo(1..MaxComments, MaxComments)

\* Variant: at most PageCap comments are asked for.
commentsMaxResults_capped(lim) == Itoa(minInt(lim, PageCap))

\* fmt.Sprintf("%d", limit) for a limit above 0
commentsMaxResults(lim) == Itoa(lim)

\* The checks of the arguments.
ViewCheckArgs ==
    /\ pc = "view"
    /\ IF commentLimit <= 0
       THEN pc' = "exit" /\ viewErr' = ErrCommentLimit
       ELSE \E hasKey \in BOOLEAN :
               IF hasKey
               THEN pc' = "loadAuthConfig" /\ viewErr' = viewErr
               ELSE pc' = "exit" /\ viewErr' = ErrViewIssueKey
    /\ UNCHANGED <<commentLimit, viewRequests, commentsResp, comments,
                   notViewVars>>

\* loadAuthConfig, as the command sees it: a configuration, the error of
\* loadConfig, or the error of an incomplete configuration.
ViewLoadAuthConfig ==
    /\ pc = "loadAuthConfig"
    /\ \E outcome \in {"ok", "loadConfig", "incomplete"} :
          CASE outcome = "ok" ->
                 pc' = "getIssue" /\ viewErr' = viewErr
            [] outcome = "loadConfig" ->
                 pc' = "exit" /\ viewErr' = ErrLoadConfig
            [] OTHER ->
                 pc' = "exit" /\ viewErr' = ErrNotAuthenticated
    /\ UNCHANGED <<commentLimit, viewRequests, commentsResp, comments,
                   notViewVars>>

\* getIssue: one GET, unless the URL made of the server cannot be parsed.
ViewGetIssue ==
    /\ pc = "getIssue"
    /\ \E outcome \in GetOutcomes \cup {"badurl"} :
          /\ viewRequests' =
                IF outcome = "badurl" THEN viewRequests
                ELSE Append(viewRequests,
                            [endpoint |-> "issue", orderBy |-> "",
                             maxResults |-> <<>>])
          /\ IF outcome = "ok"
             THEN pc' = "getComments" /\ viewErr' = viewErr
             ELSE /\ pc' = "exit"
                  /\ viewErr' = IF outcome = "badurl" THEN ErrBadURL
                                ELSE RequestError(outcome)
    /\ UNCHANGED <<commentLimit, commentsResp, comments, notViewVars>>

\* getComments and the end of the command.  The URL has the server that
\* getIssue has parsed before.
ViewGetComments ==
    /\ pc = "getComments"
    /\ viewRequests' =
          Append(viewRequests,
                 [endpoint |-> "comment", orderBy |-> "-created",
                  maxResults |-> commentsMaxResults(commentLimit)])
    /\ \E outcome \in GetOutcomes :
          IF outcome = "ok"
          THEN \E list \in CommentLists :
                  /\ commentsResp' = <<list>>
                  /\ comments' = list
                  /\ viewErr' = viewErr
          ELSE /\ commentsResp' = commentsResp
               /\ comments' = <<>>
               /\ viewErr' = RequestError(outcome)
    /\ pc' = "exit"
    /\ UNCHANGED <<commentLimit, notViewVars>>

InitView ==
    /\ pc = "view"
    /\ commentLimit \in CommentLimits
    /\ viewRequests = <<>>
    /\ commentsResp = <<>>
    /\ comments = <<>>
    /\ viewErr = NilError
    /\ TransitionIdle
    /\ SearchIdle
    /\ AuthIdle
    /\ TextIdle
    /\ AssignIdle

NextView ==
    \/ ViewCheckArgs
    \/ ViewLoadAuthConfig
    \/ ViewGetIssue
    \/ ViewGetComments

SpecView == InitView /\ [][NextView]_vars

(***************************************************************************)
(* matchTransition on the transitions of one issue in every order          *)
(***************************************************************************)

MaxListLen == 3

\* The transitions of one issue, named BBa, BaBB, aB, Ab, Ba, a, a" and B"
\* with the ids 2, 10, 4, 12, 6, 14, 8, 16: a transition keeps its id
\* wherever it stands in a list.
Pool ==
    TransitionsOf(<<<<66, 66, 97>>, <<66, 97, 66, 66>>, <<97, 66>>,
                    <<65, 98>>, <<66, 97>>, <<97>>, <<97, 34>>, <<66, 34>>>>)

\* The values of targetStatus: A, b, Ab, bA, the double quote, A between
\* spaces, AA (which no name holds) and a single space.
PoolQueries ==
    {<<65>>, <<98>>, <<65, 98>>, <<98, 65>>, <<34>>, <<32, 65, 32>>,
     <<65, 65>>, <<32>>}

\* The lists of at most MaxListLen different transitions of the pool.
PoolLists ==
    UNION {{[k \in 1..n |-> Pool[f[k]]] :
               f \in {g \in [1..n -> 1..Len(Pool)] :
                         \A i, j \in 1..n : i # j => g[i] # g[j]}} :
           n \in 0..MaxListLen}

\* The lists that hold the elements of a list in another order.
Reordered(list) ==
    LET n == Len(list)
    IN  {[k \in 1..n |-> list[p[k]]] :
            p \in {g \in [1..n -> 1..n] :
                      \A i, j \in 1..n : i # j => g[i] # g[j]}} \ {list}

\* matchTransition(transitions, targetStatus) on a list of the pool.
CallMatchPool ==
    /\ pc = "start"
    /\ \E list \in PoolLists :
          /\ transitions' = list
          /\ matched' = matchTransition(list, status)
    /\ pc' = "returned"
    /\ UNCHANGED <<status, posts, cmdErr, notTransitionVars>>

\* matchTransition on the same transitions in another order, with the same
\* targetStatus.
CallMatchReordered ==
    /\ pc \in {"returned", "reordered"}
    /\ \E list \in Reordered(transitions) :
          /\ transitions' = list
          /\ matched' = matchTransition(list, status)
    /\ pc' = "reordered"
    /\ UNCHANGED <<status, posts, cmdErr, notTransitionVars>>

InitReorder ==
    /\ pc = "start"
    /\ status \in PoolQueries
    /\ transitions = <<>>
    /\ matched = NoMatchResult
    /\ posts = <<>>
    /\ cmdErr = NilError
    /\ SearchIdle
    /\ AuthIdle
    /\ TextIdle
    /\ ViewIdle
    /\ AssignIdle

NextReorder ==
    \/ CallMatchPool
    \/ CallMatchReordered

SpecReorder == InitReorder /\ [][NextReorder]_vars

(***************************************************************************)
(* jiractl issues assign KEY [--email EMAIL]  (runIssuesAssign)            *)
(***************************************************************************)

MaxUsers == 2

\* issue key is required (e.g. jiractl issues assign PROJ-123)
ErrAssignIssueKey ==
    NewError(
      <<105, 115, 115, 117, 101, 32, 107, 101, 121, 32, 105, 115, 32,
        114, 101, 113, 117, 105, 114, 101, 100, 32, 40, 101, 46, 103,
        46, 32, 106, 105, 114, 97, 99, 116, 108, 32, 105, 115, 115, 117,
        101, 115, 32, 97, 115, 115, 105, 103, 110, 32, 80, 82, 79, 74,
        45, 49, 50, 51, 41>>)

\* issue has no reporter; use --email to specify an assignee
ErrNoReporter ==
    NewError(
      <<105, 115, 115, 117, 101, 32, 104, 97, 115, 32, 110, 111, 32,
        114, 101, 112, 111, 114, 116, 101, 114, 59, 32, 117, 115, 101,
        32, 45, 45, 101, 109, 97, 105, 108, 32, 116, 111, 32, 115, 112,
        101, 99, 105, 102, 121, 32, 97, 110, 32, 97, 115, 115, 105, 103,
        110, 101, 101>>)

\* "no user found for "
TxtNoUser == <<110, 111, 32, 117, 115, 101, 114, 32, 102, 111, 117, 110, 100, 32,
      102, 111, 114, 32>>

\* fmt.Errorf("no user found for %q", *email)
noUserError(email) == NewError(TxtNoUser \o Quote(email))

\* The values of --email: none, a@b and a".
AssignEmails == {<<>>, <<97, 64, 98>>, <<97, 34>>}

\* The users the server knows (JiraUser): account id 1 with an address and
\* a name, account id 2 with a name only, account id 3 with an address only
\* and a user without account id.
AssignPeople ==
    {[AccountID |-> <<49>>, EmailAddress |-> <<97, 64, 98>>, DisplayName |-> <<65>>],
     [AccountID |-> <<50>>, EmailAddress |-> <<>>, DisplayName |-> <<66>>],
     [AccountID |-> <<51>>, EmailAddress |-> <<97, 34>>, DisplayName |-> <<>>],
     [AccountID |-> <<>>, EmailAddress |-> <<97, 64, 98>>, DisplayName |-> <<>>]}

\* issue.Fields.Reporter: nil or a user.
Reporters == {<<>>} \cup {<<u>> : u \in AssignPeople}

\* What the user search decodes: any users in any order.
UserLists == StringsUpTo(AssignPeople, MaxUsers)

\* Variant: a reporter without account id is assigned too.
hasReporter_anyID(reporter) == reporter # <<>>

\* The negation of the test: issue.Fields.Reporter == nil ||
\* issue.Fields.Reporter.AccountID == ""
hasReporter(reporter) == reporter # <<>> /\ reporter[1].AccountID # <<>>

\* The check of the arguments.
AssignCheckArgs ==
    /\ pc = "assign"
    /\ \E hasKey \in BOOLEAN :
          IF hasKey
          THEN pc' = "assignLoadAuthConfig" /\ assignErr' = assignErr
          ELSE pc' = "exit" /\ assignErr' = ErrAssignIssueKey
    /\ UNCHANGED <<assignEmail, assignGets, assignReporter, assignUsers,
                   assignPuts, notAssignVars>>

\* loadAuthConfig, as the command sees it: a configuration, the error of
\* loadConfig, or the error of an incomplete configuration.
AssignLoadAuthConfig ==
    /\ pc = "assignLoadAuthConfig"
    /\ \E outcome \in {"ok", "loadConfig", "incomplete"} :
          CASE outcome = "ok" ->
                 pc' = "assignLookup" /\ assignErr' = assignErr
            [] outcome = "loadConfig" ->
                 pc' = "exit" /\ assignErr' = ErrLoadConfig
            [] OTHER ->
                 pc' = "exit" /\ assignErr' = ErrNotAuthenticated
    /\ UNCHANGED <<assignEmail, assignGets, assignReporter, assignUsers,
                   assignPuts, notAssignVars>>

\* Without --email: getIssue, one GET unless the request cannot be built,
\* and the test of the reporter.
AssignGetIssue ==
    /\ pc = "assignLookup"
    /\ assignEmail = <<>>
    /\ \E outcome \in GetOutcomes \cup {"badurl"} :
          /\ assignGets' =
                IF outcome = "badurl" THEN assignGets
                ELSE Append(assignGets, [endpoint |-> "issue", query |-> <<>>])
          /\ IF outcome = "ok"
             THEN \E reporter \in Reporters :
                     /\ assignReporter' = reporter
                     /\ IF hasReporter(reporter)
                        THEN pc' = "assignIssue" /\ assignErr' = assignErr
                        ELSE pc' = "exit" /\ assignErr' = ErrNoReporter
             ELSE /\ assignReporter' = assignReporter
                  /\ pc' = "exit"
                  /\ assignErr' = IF outcome = "badurl" THEN ErrBadURL
                                  ELSE RequestError(outcome)
    /\ UNCHANGED <<assignEmail, assignUsers, assignPuts, notAssignVars>>

\* With --email: searchUser, one GET unless the URL cannot be parsed, and
\* the test of the users found.
AssignSearchUser ==
    /\ pc = "assignLookup"
    /\ assignEmail # <<>>
    /\ \E outcome \in GetOutcomes \cup {"badurl"} :
          /\ assignGets' =
                IF outcome = "badurl" THEN assignGets
                ELSE Append(assignGets,
                            [endpoint |-> "user/search", query |-> assignEmail])
          /\ IF outcome = "ok"
             THEN \E users \in UserLists :
                     /\ assignUsers' = users
                     /\ IF Len(users) = 0
                        THEN /\ pc' = "exit"
                             /\ assignErr' = noUserError(assignEmail)
                        ELSE pc' = "assignIssue" /\ assignErr' = assignErr
             ELSE /\ assignUsers' = assignUsers
                  /\ pc' = "exit"
                  /\ assignErr' = IF outcome = "badurl" THEN ErrBadURL
                                  ELSE RequestError(outcome)
    /\ UNCHANGED <<assignEmail, assignReporter, assignPuts, notAssignVars>>

\* assignIssue with the account id of the reporter or of users[0], and the
\* end of the command.  The URL has the server the lookup has used before.
AssignIssue ==
    /\ pc = "assignIssue"
    /\ assignPuts' =
          Append(assignPuts,
                 IF assignEmail = <<>> THEN assignReporter[1].AccountID
                 ELSE assignUsers[1].AccountID)
    /\ \E outcome \in PostOutcomes : assignErr' = RequestError(outcome)
    /\ pc' = "exit"
    /\ UNCHANGED <<assignEmail, assignGets, assignReporter, assignUsers,
                   notAssignVars>>

InitAssign ==
    /\ pc = "assign"
    /\ assignEmail \in AssignEmails
    /\ assignGets = <<>>
    /\ assignReporter = <<>>
    /\ assignUsers = <<>>
    /\ assignPuts = <<>>
    /\ assignErr = NilError
    /\ TransitionIdle
    /\ SearchIdle
    /\ AuthIdle
    /\ TextIdle
    /\ ViewIdle

NextAssign ==
    \/ AssignCheckArgs
    \/ AssignLoadAuthConfig
    \/ AssignGetIssue
    \/ AssignSearchUser
    \/ AssignIssue

SpecAssign == InitAssign /\ [][NextAssign]_vars

(***************************************************************************)
(* Properties of matchTransition                                           *)
(***************************************************************************)

\* matchTransition has returned (it never returns the zero transition
\* together with the nil error).
Called == matched # NoMatchResult

\* A string that is empty or holds only white space.
IsBlank(s) == \A i \in 1..Len(s) : s[i] \in {9, 10, 11, 12, 13, 32}

\* The query: the status without the white space around it.
Query == TrimSpace(status)

NameAt(i) == ToLower(transitions[i].Name)

\* The positions of the transitions whose name is the query, starts with
\* the query, holds the query; letters compared without regard to case.
ExactIdx ==
    LET q == ToLower(Query)
    IN  {i \in 1..Len(transitions) : NameAt(i) = q}

StartsIdx ==
    LET q == ToLower(Query)
    IN  {i \in 1..Len(transitions) :
            /\ Len(transitions[i].Name) >= Len(q)
            /\ SubSeq(NameAt(i), 1, Len(q)) = q}

InsideIdx ==
    LET q == ToLower(Query)
    IN  {i \in 1..Len(transitions) :
            \E k \in 1..(Len(transitions[i].Name) - Len(q) + 1) :
                SubSeq(NameAt(i), k, k + Len(q) - 1) = q}

\* The first tier that is not empty.
WinningTier ==
    IF ExactIdx # {} THEN ExactIdx
    ELSE IF StartsIdx # {} THEN StartsIdx
    ELSE InsideIdx

\* C1: if some name equals the non-blank query without regard to case, the
\* result is one of the transitions so named, matchedBy is "exact" and the
\* warning is empty, whatever prefix or contains candidates the list holds.
C1_ExactWins ==
    (Called /\ ~IsBlank(status) /\ ExactIdx # {}) =>
        /\ ~matched.err.failed
        /\ matched.matchedBy = "exact"
        /\ matched.warning = <<>>
        /\ \E i \in ExactIdx : matched.transition = transitions[i]

\* An exact match found behind a transition that only starts with the query.
C1_Witness ==
    /\ pc = "returned"
    /\ \E i \in ExactIdx : \E j \in StartsIdx \ ExactIdx : j < i
    /\ matched.matchedBy = "exact"

\* C2 as claimed: whenever the winning tier, the exact tier included, holds
\* two or more candidates, the warning is not empty.
C2_Original ==
    (Called /\ ~matched.err.failed /\ Cardinality(WinningTier) >= 2) =>
        matched.warning # <<>>

\* C2 as amended: whenever the prefix tier or the contains tier wins and
\* holds two or more candidates, the warning is not empty.
C2_WarnsBelowExact ==
    (Called /\ ~matched.err.failed /\ ExactIdx = {}
        /\ Cardinality(WinningTier) >= 2) =>
        matched.warning # <<>>

\* Two candidates in the prefix tier, and a warning.
C2_Witness ==
    /\ Called
    /\ ExactIdx = {}
    /\ Cardinality(StartsIdx) = 2
    /\ matched.warning # <<>>

\* C3: if no name equals the query and exactly one name starts with it, the
\* result is that transition, matchedBy is "prefix" and the warning is
\* empty, however many names hold the query further inside.
C3_SinglePrefix ==
    (Called /\ ~IsBlank(status) /\ ExactIdx = {} /\ Cardinality(StartsIdx) = 1) =>
        /\ ~matched.err.failed
        /\ matched.matchedBy = "prefix"
        /\ matched.warning = <<>>
        /\ \A i \in StartsIdx : matched.transition = transitions[i]

\* One prefix candidate behind a name that holds the query inside.
C3_Witness ==
    /\ Called
    /\ ExactIdx = {}
    /\ Cardinality(StartsIdx) = 1
    /\ \E i \in StartsIdx : \E j \in InsideIdx \ StartsIdx : j < i
    /\ matched.matchedBy = "prefix"

\* The names of the transitions, in input order, joined by ", ".
NamesListed ==
    Join([i \in 1..Len(transitions) |-> transitions[i].Name], <<44, 32>>)

HasSuffix(s, suffix) ==
    /\ Len(s) >= Len(suffix)
    /\ SubSeq(s, Len(s) - Len(suffix) + 1, Len(s)) = suffix

\* A string that %q writes as it is: printable bytes, neither the double
\* quote nor the backslash.
WrittenAsIs(s) == \A i \in 1..Len(s) : s[i] \in (32..126) \ {34, 92}

\* What C4 says in every form: an error, no transition, and every name in
\* the message, in input order.
NoMatchReported ==
    /\ matched.err.failed
    /\ matched.transition = ZeroTransition
    /\ matched.matchedBy = ""
    /\ \A i \in 1..Len(transitions) :
          Contains(matched.err.msg, transitions[i].Name)
    /\ HasSuffix(matched.err.msg, NamesListed)

\* C4 as claimed: if no name holds the non-blank query, the call fails and
\* the message holds the query and every name, in input order.
C4_Original ==
    (Called /\ ~IsBlank(status) /\ InsideIdx = {}) =>
        /\ NoMatchReported
        /\ Contains(matched.err.msg, Query)

\* C4 as amended: the message holds the query as %q writes it, that is in
\* double quotes with the double quotes and backslashes inside it escaped,
\* and so holds the query itself whenever %q writes the query as it is.
C4_NoMatchLists ==
    (Called /\ ~IsBlank(status) /\ InsideIdx = {}) =>
        /\ NoMatchReported
        /\ Contains(matched.err.msg, Quote(Query))
        /\ WrittenAsIs(Query) => Contains(matched.err.msg, Query)

\* No match among two names, for a query that holds a double quote.
C4_Witness ==
    /\ Called
    /\ Len(transitions) >= 2
    /\ transitions[1].Name # transitions[2].Name
    /\ InsideIdx = {}
    /\ ~WrittenAsIs(Query)
    /\ matched.err.failed

\* C5: the transition of a successful call is an element of the list.
C5_SelectedIsMember ==
    (Called /\ ~matched.err.failed) =>
        \E i \in 1..Len(transitions) : matched.transition = transitions[i]

\* A transition with a target status selected among several candidates.
C5_Witness ==
    /\ Called
    /\ ~matched.err.failed
    /\ Cardinality(WinningTier) >= 2
    /\ matched.transition.To # <<>>

\* The order of the final tie-break: the length of the name, then the name
\* in lower case, then the id.
TieBreakBefore(x, y) ==
    \/ Len(x.Name) < Len(y.Name)
    \/ /\ Len(x.Name) = Len(y.Name)
       /\ StringLess(ToLower(x.Name), ToLower(y.Name))
    \/ /\ Len(x.Name) = Len(y.Name)
       /\ ToLower(x.Name) = ToLower(y.Name)
       /\ StringLess(x.ID, y.ID)

\* C6: if the winning tier holds more than one candidate, the result is
\* the least of them in the order of the tie-break; no candidate of the
\* tier has a shorter name.
C6_LeastOfTier ==
    (Called /\ ~matched.err.failed /\ Cardinality(WinningTier) > 1) =>
        /\ \E i \in WinningTier : matched.transition = transitions[i]
        /\ \A i \in WinningTier :
              /\ ~TieBreakBefore(transitions[i], matched.transition)
              /\ Len(transitions[i].Name) >= Len(matched.transition.Name)

\* The shorter of two candidates is selected although it comes second and
\* its lower-case name is the greater.
C6_Witness ==
    /\ Called
    /\ ~matched.err.failed
    /\ Cardinality(WinningTier) = 2
    /\ \E i \in WinningTier :
          /\ transitions[i] = matched.transition
          /\ \E j \in WinningTier :
                /\ j < i
                /\ Len(transitions[j].Name) > Len(transitions[i].Name)
                /\ StringLess(NameAt(j), NameAt(i))

\* C7: matchedBy names the first tier that is not empty, and the result
\* belongs to that tier.
C7_TierPrecedence ==
    (Called /\ ~IsBlank(status)) =>
        /\ matched.matchedBy = "exact" <=> ExactIdx # {}
        /\ matched.matchedBy = "prefix" <=> (ExactIdx = {} /\ StartsIdx # {})
        /\ matched.matchedBy = "contains" <=> (StartsIdx = {} /\ InsideIdx # {})
        /\ ~matched.err.failed =>
              \E i \in WinningTier : matched.transition = transitions[i]

\* The prefix tier wins over a shorter name, earlier in the list, that
\* holds the query inside.
C7_Witness ==
    /\ Called
    /\ matched.matchedBy = "prefix"
    /\ \E i \in StartsIdx : \E j \in InsideIdx \ StartsIdx :
          j < i /\ Len(transitions[j].Name) < Len(transitions[i].Name)

\* C8: for a blank status matchTransition returns an error and no
\* transition, whatever the list, and the command posts no transition.
C8_BlankQuery ==
    IsBlank(status) =>
        /\ posts = <<>>
        /\ Called =>
              /\ matched.err.failed
              /\ matched.transition = ZeroTransition
              /\ matched.matchedBy = ""

\* The command has ended on a status of white space, after the server
\* offered a transition with an empty name.
C8_Witness ==
    /\ pc = "exit"
    /\ status # <<>>
    /\ IsBlank(status)
    /\ Called
    /\ \E i \in 1..Len(transitions) : transitions[i].Name = <<>>
    /\ cmdErr = ErrStatusRequired

(***************************************************************************)
(* Properties of searchIssues                                              *)
(***************************************************************************)

\* searchIssues has returned without an error.
SearchSucceeded == pc = "done" /\ ~searchErr.failed

\* C10: a successful searchIssues returns at most limit issues: the first
\* min(limit, n) of the n issues received, in the order received.
C10_FirstLimitItems ==
    SearchSucceeded =>
        /\ Len(result.Issues) <= limit
        /\ Len(result.Issues) =
              (IF Len(received) < limit THEN Len(received) ELSE limit)
        /\ \A k \in 1..Len(result.Issues) : result.Issues[k] = received[k]

\* Two pages were received and the second went over the limit.
C10_Witness ==
    /\ SearchSucceeded
    /\ numRequests = 2
    /\ Len(received) > limit
    /\ Len(result.Issues) = limit

\* The last page decoded.
LastResponse == response[1]

\* C11: on a successful searchIssues, HasMore is true exactly when the last
\* response carried a token or fewer issues are returned than the last
\* response's total.  A limit above the total, reached with no token, gives
\* false; a limit filled by a page with a token gives true.
C11_HasMoreIff ==
    SearchSucceeded /\ response # <<>> =>
        /\ result.HasMore <=>
              (LastResponse.NextPageToken # ""
                  \/ Len(result.Issues) < LastResponse.Total)
        /\ (/\ limit > LastResponse.Total
            /\ LastResponse.NextPageToken = ""
            /\ Len(received) = LastResponse.Total) => ~result.HasMore
        /\ (Len(received) >= limit /\ LastResponse.NextPageToken # "")
              => result.HasMore

\* As in TestSearchIssuesReturnsPaginationMetadata: one page fills the limit
\* and carries a token.
C11_Witness ==
    /\ SearchSucceeded
    /\ numRequests = 1
    /\ Len(LastResponse.Issues) = limit
    /\ LastResponse.NextPageToken = "page-2"
    /\ LastResponse.Total > limit
    /\ result.HasMore

\* C12 as stated: HasMore is token pending, or the number of issues
\* accumulated before the truncation below the last total.
C12_Original ==
    SearchSucceeded /\ response # <<>> =>
        (result.HasMore <=>
            (nextPageToken # "" \/ Len(received) < result.Total))

\* C12: the count compared with the total is the count after the truncation:
\* when the pages received hold more issues than the limit, HasMore is token
\* pending, or the limit below the last total.
C12_CountAfterTruncation ==
    SearchSucceeded /\ Len(received) > limit =>
        (result.HasMore <=> (nextPageToken # "" \/ limit < result.Total))

\* A last page without a token goes over the limit and brings the count to
\* the total: HasMore is true.
C12_Witness ==
    /\ SearchSucceeded
    /\ Len(received) > limit
    /\ Len(received) = result.Total
    /\ nextPageToken = ""
    /\ result.HasMore

\* C13: a successful searchIssues reports the total of the last response
\* received, whatever the earlier responses reported.
C13_LastTotal ==
    SearchSucceeded /\ response # <<>> => result.Total = LastResponse.Total

\* Two pages were received and the second reported a smaller total than some
\* total reported before.
C13_Witness ==
    /\ SearchSucceeded
    /\ numRequests = 2
    /\ LastResponse.Total = 1
    /\ Len(received) > 1
    /\ result.Total = 1

\* searchIssues has returned an error after a page request.
SearchFailed == pc = "done" /\ searchErr.failed /\ numRequests > 0

\* C14: when a page request fails, searchIssues is over: the error is
\* returned, no step of the loop can follow, and the result holds no issues
\* and HasMore false, whatever the earlier pages brought.
C14_FailureDiscards ==
    searchErr.failed =>
        /\ pc = "done"
        /\ ~ENABLED NextSearch
        /\ result.Issues = <<>>
        /\ ~result.HasMore

\* The second page request failed after a first page with issues.
C14_Witness ==
    /\ SearchFailed
    /\ numRequests = 2
    /\ received # <<>>
    /\ all # <<>>
    /\ result.Issues = <<>>

(***************************************************************************)
(* Properties of the transition command                                    *)
(***************************************************************************)

\* C15: the command posts at most once, and only the id of the transition
\* that matchTransition returned without an error for the transitions
\* fetched, which is the id of one of them; a failed fetch or a failed match
\* ends the command with nothing posted.
C15_PostAfterMatch ==
    /\ Len(posts) <= 1
    /\ posts # <<>> =>
          /\ Called
          /\ ~matched.err.failed
          /\ matched = matchTransition(transitions, status)
          /\ posts[1] = matched.transition.ID
          /\ \E i \in 1..Len(transitions) :
                transitions[i] = matched.transition /\ transitions[i].ID = posts[1]
    /\ (pc = "exit" /\ (~Called \/ matched.err.failed)) => posts = <<>>

\* The command has posted the id of the second transition fetched.
C15_Witness ==
    /\ pc = "exit"
    /\ Len(posts) = 1
    /\ Len(transitions) >= 2
    /\ posts[1] = transitions[2].ID
    /\ posts[1] # transitions[1].ID


(***************************************************************************)
(* Properties of the configuration                                         *)
(***************************************************************************)

\* C16: auth login changes config.json only after its one verification
\* request was answered with status 200 and a body that decodes; a missing
\* server, email or token and every failed verification leave config.json
\* as it was when the command started.
C16_SaveAfterVerify ==
    command = "login" =>
        /\ verification # "ok" => configFile = configBefore
        /\ configFile # configBefore =>
              /\ pc = "exit"
              /\ authRequests = <<"myself">>
        /\ (pc = "exit" /\ ~authErr.failed) => configFile = ValidFile(authCfg)

\* auth login has replaced a Config stored before with the one it verified.
C16_Witness ==
    /\ command = "login"
    /\ pc = "exit"
    /\ ~authErr.failed
    /\ verification = "ok"
    /\ configBefore.state = "valid"
    /\ configFile = ValidFile(authCfg)
    /\ configFile # configBefore

\* What config.json gives for the fields of a Config.
FileValue == IF configFile.state = "valid" THEN configFile.cfg ELSE ZeroConfig

\* Field by field the value of the environment when it is not empty, the
\* value of config.json otherwise.
Resolved ==
    [Server |-> IF env.Server # <<>> THEN env.Server ELSE FileValue.Server,
     Email |-> IF env.Email # <<>> THEN env.Email ELSE FileValue.Email,
     APIToken |-> IF env.APIToken # <<>> THEN env.APIToken
                  ELSE FileValue.APIToken]

SomeEmpty(c) == c.Server = <<>> \/ c.Email = <<>> \/ c.APIToken = <<>>

\* loadAuthConfig has returned in auth status or in an issues command.
AuthLoaded == command \in {"status", "issues"} /\ pc \in {"request", "exit"}

\* The error loadAuthConfig returned: once an issues command has gone on to
\* its request, loadAuthConfig had returned none, and the error of the
\* command is that of the request.
LoadError ==
    IF /\ command = "issues"
       /\ pc = "exit"
       /\ authErr \in {ErrBadURL, ErrRequestFailed, ErrAPIError, ErrDecode}
    THEN NilError
    ELSE authErr

\* What C17 says of a call of loadAuthConfig that has returned.
EnvOverFile ==
    /\ LoadError = ErrNotAuthenticated <=> SomeEmpty(Resolved)
    /\ ~SomeEmpty(Resolved) =>
          /\ ~LoadError.failed
          /\ authCfg = [Resolved EXCEPT !.Server = TrimRightCutset(@, {47})]
    /\ SomeEmpty(Resolved) => authRequests = <<>>

\* C17 as stated: loadAuthConfig takes each field from the environment when
\* set there and from config.json otherwise, fails with "not authenticated"
\* exactly when a field is left empty, and then no request is sent.
C17_Original == AuthLoaded => EnvOverFile

\* C17 where config.json is absent or holds a Config: the statement holds;
\* where config.json cannot be read, loadAuthConfig returns the error of
\* loadConfig whatever the environment holds, and no request is sent.
C17_WhenConfigLoads ==
    AuthLoaded =>
        IF configFile.state = "unreadable"
        THEN authErr = ErrLoadConfig /\ authRequests = <<>>
        ELSE EnvOverFile

\* An issues command has sent its request with the email of the environment,
\* set in config.json too, and the server of config.json.
C17_Witness ==
    /\ command = "issues"
    /\ pc = "exit"
    /\ ~authErr.failed
    /\ authRequests = <<"api">>
    /\ env.Server = <<>>
    /\ env.Email # <<>>
    /\ configFile.state = "valid"
    /\ configFile.cfg.Email # <<>>
    /\ authCfg.Email = env.Email
    /\ authCfg.Server = configFile.cfg.Server


(***************************************************************************)
(* Properties of adfToText                                                 *)
(***************************************************************************)

IsTextNode(v) ==
    v.kind = "map" /\ v.type = "text" /\ v.hasText /\ ~v.hasContent

IsParagraphOfText(v) ==
    /\ v.kind = "map"
    /\ v.type = "paragraph"
    /\ ~v.hasText
    /\ v.hasContent
    /\ Len(v.content) = 1
    /\ IsTextNode(v.content[1])

\* The document is a root whose content is paragraphs of one text node.
IsParagraphDoc ==
    /\ adfDoc.kind = "map"
    /\ ~adfDoc.hasText
    /\ adfDoc.hasContent
    /\ \A i \in 1..Len(adfDoc.content) : IsParagraphOfText(adfDoc.content[i])

ParagraphTexts ==
    [i \in 1..Len(adfDoc.content) |-> adfDoc.content[i].content[1].text]

\* The document is a root with one child that has a text of its own and
\* text nodes as content.
IsOwnTextDoc ==
    /\ adfDoc.kind = "map"
    /\ ~adfDoc.hasText
    /\ adfDoc.hasContent
    /\ Len(adfDoc.content) = 1
    /\ LET node == adfDoc.content[1]
       IN  /\ node.kind = "map"
           /\ node.hasText
           /\ node.hasContent
           /\ \A i \in 1..Len(node.content) : IsTextNode(node.content[i])

OwnThenChildren ==
    LET node == adfDoc.content[1]
    IN  node.text \o
        Join([i \in 1..Len(node.content) |-> node.content[i].text], <<>>)

\* C18 as stated: nil gives "", a string is returned as it is, and the
\* paragraphs t_1, ..., t_n give t_1, ..., t_n joined by one newline.
C18_Original ==
    adfText # <<>> =>
        /\ adfDoc.kind = "nil" => adfText[1] = <<>>
        /\ adfDoc.kind = "string" => adfText[1] = adfDoc.text
        /\ IsParagraphDoc => adfText[1] = Join(ParagraphTexts, <<10>>)

\* C18: nil gives "" and a string is returned as it is; of a document the
\* text written is trimmed: the paragraphs t_1, ..., t_n give the trimmed
\* join of t_1, ..., t_n by one newline, and a node with a text of its own
\* gives that text followed by the texts of its children in order, trimmed.
C18_TrimmedJoin ==
    adfText # <<>> =>
        /\ adfDoc.kind = "nil" => adfText[1] = <<>>
        /\ adfDoc.kind = "string" => adfText[1] = adfDoc.text
        /\ IsParagraphDoc =>
              adfText[1] = TrimSpace(Join(ParagraphTexts, <<10>>))
        /\ IsOwnTextDoc => adfText[1] = TrimSpace(OwnThenChildren)

\* The paragraphs " A" and "B " give "A\nB".
C18_Witness ==
    /\ adfText = << <<65, 10, 66>> >>
    /\ IsParagraphDoc
    /\ Len(adfDoc.content) = 2
    /\ ParagraphTexts = << <<32, 65>>, <<66, 32>> >>


(***************************************************************************)
(* Properties of formatDate                                                *)
(***************************************************************************)

\* The argument parses with neither layout.
ParsesWithNeither ==
    ~timeParse(TRUE, dateIn).ok /\ ~timeParse(FALSE, dateIn).ok

\* C19: formatDate returns a string for every argument: "" for "", and for
\* an argument that parses with neither layout the argument itself when it
\* is shorter than 10 bytes and its first 10 bytes otherwise.
C19_Fallback ==
    dateOut # <<>> =>
        /\ dateIn = <<>> => dateOut[1] = <<>>
        /\ ParsesWithNeither =>
              dateOut[1] = (IF Len(dateIn) < 10 THEN dateIn
                            ELSE SubSeq(dateIn, 1, 10))

\* 2023-02-29T10:20:30.000+0000 names a day that does not exist: its first
\* ten bytes are returned.
C19_Witness ==
    /\ dateOut = << <<50, 48, 50, 51, 45, 48, 50, 45, 50, 57>> >>
    /\ Len(dateIn) = 28
    /\ ParsesWithNeither


(***************************************************************************)
(* Properties of getComments                                               *)
(***************************************************************************)

\* The number a sequence of decimal digits stands for.
RECURSIVE DecimalValue(_)
DecimalValue(digits) ==
    IF digits = <<>> THEN 0
    ELSE DecimalValue(SubSeq(digits, 1, Len(digits) - 1)) * 10
         + (digits[Len(digits)] - 48)

\* The requests sent to the comment endpoint.
CommentRequests == SelectSeq(viewRequests, LAMBDA r : r.endpoint = "comment")

\* C20: getComments sends one request to the comment endpoint, with
\* orderBy=-created and with maxResults the decimal of the limit it was
\* given, which is above 0, and returns the comments of the response in
\* the order received.
C20_OneCommentRequest ==
    /\ Len(CommentRequests) <= 1
    /\ \A i \in 1..Len(CommentRequests) :
          /\ commentLimit > 0
          /\ CommentRequests[i].orderBy = "-created"
          /\ CommentRequests[i].maxResults # <<>>
          /\ \A k \in 1..Len(CommentRequests[i].maxResults) :
                CommentRequests[i].maxResults[k] \in 48..57
          /\ DecimalValue(CommentRequests[i].maxResults) = commentLimit
    /\ (pc = "exit" /\ commentsResp # <<>>) =>
          /\ Len(CommentRequests) = 1
          /\ comments = commentsResp[1]
    /\ (pc = "exit" /\ ~viewErr.failed) => commentsResp # <<>>

\* With --comment-limit 250 the request asks for 250 comments, and three
\* comments that are not in the order of their ids are returned as sent.
C20_Witness ==
    /\ pc = "exit"
    /\ ~viewErr.failed
    /\ commentLimit = 250
    /\ Len(CommentRequests) = 1
    /\ CommentRequests[1].maxResults = <<50, 53, 48>>
    /\ Len(comments) = 3
    /\ comments[1] > comments[2]
    /\ comments = commentsResp[1]


(***************************************************************************)
(* Properties of the page requests of searchIssues                         *)
(***************************************************************************)

\* The token of the response received last, "" before the first response.
LastToken == IF response = <<>> THEN "" ELSE response[1].NextPageToken

\* This step sends a page request.
SendsRequest == numRequests' # numRequests

\* C21: every page request asks for maxResults = min(limit - number of
\* issues accumulated so far, 100), which is at least 1 and at most 100.
C21_MaxResultsAsked ==
    pc = "waiting" =>
        LET asked   == request[1].maxResults
            missing == limit - Len(received)
        IN  /\ asked = (IF missing < PageCap THEN missing ELSE PageCap)
            /\ asked >= 1
            /\ asked <= PageCap

\* A request of a search for more than 100 issues is capped at 100.
C21_Witness ==
    /\ pc = "waiting"
    /\ limit - Len(received) > PageCap
    /\ request[1].maxResults = PageCap

\* C22: the first page request carries no token, every later request
\* carries the token of the response received immediately before it, and a
\* request is sent only when no request is outstanding.
C22_CursorChained ==
    [][SendsRequest =>
          /\ pc = "loop"
          /\ pc' = "waiting"
          /\ numRequests' = numRequests + 1
          /\ (numRequests = 0) <=> (response = <<>>)
          /\ request'[1].nextPageToken = LastToken]_vars

\* A third request carries the token the second response repeated.
C22_Witness ==
    /\ pc = "waiting"
    /\ numRequests = 3
    /\ response # <<>>
    /\ response[1].NextPageToken = "page-2"
    /\ request[1].nextPageToken = "page-2"
    /\ request[1].maxResults = 1

\* C23: no page request follows a response that holds no issue or carries
\* no token, and none is sent once the limit is reached.
C23_NoRequestAfterLastPage ==
    [][SendsRequest =>
          /\ response # <<>> =>
                /\ Len(response[1].Issues) > 0
                /\ response[1].NextPageToken # ""
          /\ Len(received) < limit]_vars

\* A first page fills the limit and carries a token: it is the only request.
C23_Witness ==
    /\ pc = "done"
    /\ searchErr = NilError
    /\ numRequests = 1
    /\ Len(response[1].Issues) >= limit
    /\ response[1].NextPageToken # ""

\* What is left of a call: the issues missing and the position in the loop.
SearchRank ==
    LET missing == IF Len(received) < limit THEN limit - Len(received) ELSE 0
    IN  CASE pc = "loop"    -> 4 * missing + 3
          [] pc = "waiting" -> 4 * missing + 2
          [] pc = "after"   -> 1
          [] OTHER          -> 0

\* C24: searchIssues terminates after at most limit page requests: at most
\* limit requests are sent, every step brings the call nearer to its return,
\* and the call can always take a step until it has returned.
C24_TerminatesWithinLimit ==
    /\ [](numRequests <= limit)
    /\ [](pc # "done" => ENABLED NextSearch)
    /\ [][SearchRank' < SearchRank]_vars

\* Every page held one issue and repeated the token: limit requests.
C24_Witness ==
    /\ pc = "done"
    /\ limit >= 3
    /\ numRequests = limit
    /\ response[1].NextPageToken = "page-3"
    /\ request[1].nextPageToken = "page-3"


(***************************************************************************)
(* Properties of the selection inside a tier                               *)
(***************************************************************************)

\* The index of the first occurrence of the query in a name, letters
\* compared without regard to case; -1 if there is none.
OccurrenceIndex(name) == Index(ToLower(name), ToLower(Query))

\* C25 as claimed: when the contains tier wins, no candidate of the tier
\* holds the query at a strictly smaller index than the selected transition.
C25_Original ==
    (Called /\ ~matched.err.failed /\ matched.matchedBy = "contains") =>
        \A i \in InsideIdx :
            OccurrenceIndex(transitions[i].Name)
                >= OccurrenceIndex(matched.transition.Name)

\* "BBa" is selected for the query a although "BaBB" holds it earlier.
C25_Witness ==
    /\ pc = "returned"
    /\ Query = <<65>>
    /\ Len(transitions) = 2
    /\ transitions[1].Name = <<66, 66, 97>>
    /\ transitions[2].Name = <<66, 97, 66, 66>>
    /\ matched.matchedBy = "contains"
    /\ matched.transition = transitions[1]
    /\ OccurrenceIndex(transitions[2].Name) = 1
    /\ OccurrenceIndex(matched.transition.Name) = 2

\* C29: the same transitions in another order and the same query give the
\* same selected transition and the same matchedBy.
C29_OrderIndependent ==
    [][pc' = "reordered" =>
          /\ matched'.transition = matched.transition
          /\ matched'.matchedBy = matched.matchedBy]_vars

\* Two candidates of one length and one lower-case name, told apart by
\* their ids only; the one selected stands last in the reordered list.
C29_Witness ==
    /\ pc = "reordered"
    /\ Len(transitions) = 3
    /\ \E i \in WinningTier : \E j \in WinningTier :
          /\ i # j
          /\ NameAt(i) = NameAt(j)
    /\ matched.transition = transitions[3]


\* The orders in which the candidates of the winning tier can stand before
\* the final tie-break, as sequences of positions of the input list: the
\* input order for the prefix tier; for the contains tier ascending by
\* occurrence index, then by lower-case name, then by length.
CandidateOrders ==
    LET tier == WinningTier
        n == Cardinality(tier)
        key(i) == <<OccurrenceIndex(transitions[i].Name), NameAt(i),
                    Len(transitions[i].Name)>>
        ordered(i, j) ==
            IF matched.matchedBy = "prefix" THEN i < j
            ELSE \/ key(i)[1] < key(j)[1]
                 \/ /\ key(i)[1] = key(j)[1]
                    /\ \/ StringLess(key(i)[2], key(j)[2])
                       \/ /\ key(i)[2] = key(j)[2]
                          /\ key(i)[3] <= key(j)[3]
    IN  {o \in [1..n -> tier] :
            /\ \A a, b \in 1..n : a # b => o[a] # o[b]
            /\ \A a \in 1..(n - 1) : ordered(o[a], o[a + 1])}

\* C26: a warning that is not empty reads: status, the trimmed query as %q
\* writes it, the names of all candidates of the winning tier, each once,
\* in the order they had before the final tie-break, and the name of the
\* selected transition as %q writes it.
C26_WarningNames ==
    (Called /\ matched.warning # <<>>) =>
        /\ ~matched.err.failed
        /\ Cardinality(WinningTier) >= 2
        /\ \E o \in CandidateOrders :
              matched.warning =
                  TxtStatus \o Quote(Query) \o TxtMatchedMultiple
                  \o Join([a \in 1..Len(o) |-> transitions[o[a]].Name],
                          <<44, 32>>)
                  \o TxtUsing \o Quote(matched.transition.Name)

\* The contains tier wins with the candidates BBa and BaBB for the query A
\* between spaces: BaBB is listed first and BBa, the shorter, is selected.
C26_Witness ==
    /\ pc = "returned"
    /\ status = <<32, 65, 32>>
    /\ Len(transitions) = 3
    /\ transitions[1].Name = <<66, 66, 97>>
    /\ transitions[2].Name = <<66, 34>>
    /\ transitions[3].Name = <<66, 97, 66, 66>>
    /\ matched.matchedBy = "contains"
    /\ matched.transition = transitions[1]
    /\ Contains(matched.warning, <<66, 97, 66, 66, 44, 32, 66, 66, 97, 41>>)


(***************************************************************************)
(* Properties of the newlines adfExtract writes                            *)
(***************************************************************************)

\* The number of newlines in a text.
Newlines(text) == Cardinality({i \in 1..Len(text) : text[i] = 10})

\* The text holds an empty line: two newlines in a row.
HasEmptyLine(text) == Contains(text, <<10, 10>>)

\* The number of nodes of a type in the tree below a value, the value
\* included.
RECURSIVE SumOver(_, _, _)
SumOver(f, content, i) ==
    IF i > Len(content) THEN 0 ELSE f[i] + SumOver(f, content, i + 1)

RECURSIVE NodesOfType(_, _)
NodesOfType(v, typ) ==
    IF v.kind # "map" THEN 0
    ELSE (IF v.type = typ THEN 1 ELSE 0)
         + SumOver([i \in 1..Len(v.content) |-> NodesOfType(v.content[i], typ)],
                   v.content, 1)

\* The number of separators due in the tree below a value: one for every
\* block-level child that is a map and is not the last element of the
\* content it stands in.
RECURSIVE SeparatorsDue(_)
SeparatorsDue(v) ==
    IF v.kind # "map" THEN 0
    ELSE LET n == Len(v.content)
         IN  SumOver([i \in 1..n |->
                        (IF /\ v.content[i].kind = "map"
                            /\ v.content[i].type \in BlockTypes
                            /\ i < n
                         THEN 1 ELSE 0)
                        + SeparatorsDue(v.content[i])],
                     v.content, 1)

\* A document without list items that starts and ends with a paragraph of
\* one text node, A or B: all its newlines are separators and the trimming
\* removes nothing.
IsSeparatorDoc ==
    /\ adfDoc.kind = "map"
    /\ adfDoc.hasContent
    /\ Len(adfDoc.content) >= 1
    /\ NodesOfType(adfDoc, "listItem") = 0
    /\ \A i \in {1, Len(adfDoc.content)} :
          /\ IsParagraphOfText(adfDoc.content[i])
          /\ adfDoc.content[i].content[1].text \in {<<65>>, <<66>>}

\* C27: one newline is written after every block-level child that is not
\* the last element of its parent's content, and none anywhere else: the
\* text holds as many newlines as separators are due, two paragraphs that
\* follow one another are one newline apart, and a block that ends with a
\* conforming child leaves no empty line before the block that follows it.
C27_Separators ==
    (adfText # <<>> /\ IsSeparatorDoc) =>
        /\ Newlines(adfText[1]) = SeparatorsDue(adfDoc)
        /\ \A i \in 1..(Len(adfDoc.content) - 1) :
              (IsParagraphOfText(adfDoc.content[i])
                  /\ IsParagraphOfText(adfDoc.content[i + 1])) =>
                 Contains(adfText[1],
                          adfDoc.content[i].content[1].text \o <<10>>
                          \o adfDoc.content[i + 1].content[1].text)
        /\ (\A i \in 1..Len(adfDoc.content) :
               adfDoc.content[i].kind = "map" =>
                  \A k \in 1..Len(adfDoc.content[i].content) :
                      adfDoc.content[i].content[k].kind = "map")
              => ~HasEmptyLine(adfText[1])

\* The paragraph A, a blockquote of the paragraphs A and B, the paragraph
\* B: "A\nA\nB\nB".
C27_Witness ==
    /\ adfText = << <<65, 10, 65, 10, 66, 10, 66>> >>
    /\ IsSeparatorDoc
    /\ Len(adfDoc.content) = 3
    /\ adfDoc.content[2].type = "blockquote"
    /\ Len(adfDoc.content[2].content) = 2

\* The document is one bulletList, and every list item in it holds a
\* paragraph of one text node, alone or followed by a list of such items.
IsListDoc ==
    /\ adfDoc.kind = "map"
    /\ adfDoc.hasContent
    /\ Len(adfDoc.content) = 1
    /\ adfDoc.content[1].kind = "map"
    /\ adfDoc.content[1].type = "bulletList"

\* C28 as claimed: every list item takes one line of the text at every
\* depth: as many lines as list items, and no empty line between them.
C28_Original ==
    (adfText # <<>> /\ IsListDoc) =>
        /\ Newlines(adfText[1]) + 1 = NodesOfType(adfDoc, "listItem")
        /\ ~HasEmptyLine(adfText[1])

\* What holds: a list whose items hold no list takes one line per item.
C28_FlatListLines ==
    (adfText # <<>> /\ IsListDoc /\ NodesOfType(adfDoc, "bulletList") = 1) =>
        /\ Newlines(adfText[1]) + 1 = NodesOfType(adfDoc, "listItem")
        /\ ~HasEmptyLine(adfText[1])

\* The list of the item A with the item B nested below it and of the item
\* A: "A\nB\n\nA", with an empty line after the nested item.
C28_Witness ==
    /\ IsListDoc
    /\ NodesOfType(adfDoc, "bulletList") = 2
    /\ NodesOfType(adfDoc, "listItem") = 3
    /\ adfText = << <<65, 10, 66, 10, 10, 65>> >>


(***************************************************************************)
(* Properties of issues assign                                             *)
(***************************************************************************)

\* This step sends an assignee update.
SendsUpdate == assignPuts' # assignPuts

\* C30: at most one assignee update is sent; it follows the one lookup,
\* which succeeded, and carries the account id of the reporter, present and
\* not empty, when --email is not given, and that of the first user found
\* when it is.
C30_OneUpdateAfterLookup ==
    /\ [](Len(assignPuts) <= 1)
    /\ [][SendsUpdate =>
             /\ assignPuts = <<>>
             /\ assignGets' = assignGets
             /\ Len(assignGets) = 1
             /\ ~assignErr.failed
             /\ IF assignEmail = <<>>
                THEN /\ assignGets[1].endpoint = "issue"
                     /\ assignReporter # <<>>
                     /\ assignReporter[1].AccountID # <<>>
                     /\ assignPuts' = <<assignReporter[1].AccountID>>
                ELSE /\ assignGets[1].endpoint = "user/search"
                     /\ assignGets[1].query = assignEmail
                     /\ assignUsers # <<>>
                     /\ assignPuts' = <<assignUsers[1].AccountID>>]_vars

\* Two users found for --email: the update names the first.
C30_Witness ==
    /\ pc = "exit"
    /\ assignEmail # <<>>
    /\ Len(assignUsers) = 2
    /\ assignUsers[1].AccountID = <<50>>
    /\ assignUsers[2].AccountID = <<49>>
    /\ assignPuts = << <<50>> >>
    /\ ~assignErr.failed

====
